---- MODULE Spec2Model ----
(***************************************************************************)
(* Model of the Word template tool's persistence layer: the storage        *)
(* adapter (js/storage-adapter.js) in front of the IndexedDB store         *)
(* (js/storage.js) and the file-system store (js/storage-file.js), the     *)
(* pack import protocol (js/export.js), the app actions that reach the     *)
(* stores step by step (unnamed/part_000), template validation, the        *)
(* consistency check and duplication (js/template.js), the data handed to  *)
(* the document generator (js/word.js), and the opening of the storage     *)
(* resources.                                                               *)
(***************************************************************************)
EXTENDS Integers, Sequences, FiniteSets, TLC

VARIABLES
    storageMode,      \* storage-adapter.js: let storageMode
    workspaceHandle,  \* storage-file.js: let workspaceHandle (TRUE = a handle is held)
    supportsFS,       \* environment: 'showDirectoryPicker' in window
    cachedHandle,     \* environment: the 'current' row of the WordToolWorkspace database
    perm,             \* environment: readwrite permission state of the directory handle
    idbT,             \* IndexedDB object store 'templates' (keyPath id)
    idbR,             \* IndexedDB object store 'records' (keyPath id)
    fsT,              \* <workspace>/templates/<id>.json
    fsR,              \* <workspace>/records/<templateId>/<id>.json
    clock,            \* Date.now(), in ticks
    nextId,           \* number of ids generateId has produced
    phase,            \* "loaded" before StorageAdapter.init() has run, then "ready"
    tz,               \* environment: offset of local time from UTC, in hours
    switched,         \* history: switchToFileStorage has succeeded in this session
    last,             \* observation of the last call: arguments, outcome, stores touched
    AppState,         \* part_000: AppState.currentTemplate (its id) and AppState.currentRecord
    calls,            \* the asynchronous calls in flight, each with what it holds
    db,               \* storage.js: let db (TRUE = the connection is cached)
    opened            \* history: database opens and handle loads issued in this session

appVars == <<AppState, calls, db, opened>>

vars == <<storageMode, workspaceHandle, supportsFS, cachedHandle, perm,
          idbT, idbR, fsT, fsR, clock, nextId, phase, tz, switched, last,
          AppState, calls, db, opened>>

\* the app before a form is opened, with no call in flight and nothing opened
NoApp == [currentTemplate |-> 0, currentRecord |-> <<>>]

NoOpened == [main |-> 0, workspace |-> 0]

NoSession ==
    /\ AppState = NoApp
    /\ calls = <<>>
    /\ db = FALSE
    /\ opened = NoOpened

-----------------------------------------------------------------------------
(* Bounds of the model *)

MaxClock == 3          \* no save starts after this tick
TicksPerMinute == 2    \* clock ticks that share one formatted minute
MaxPackLen == 1        \* a pack lists at most this many templates / records

Names == {"A", "B"}    \* template names typed by the user
ExtIds == {1}          \* ids that arrive from outside (packs, callers)
OwnerIds == 1..2       \* templateId values a record can carry

NoId == 0              \* a falsy id (null, undefined, '')
NoTime == 0            \* a falsy timestamp (null, undefined)

-----------------------------------------------------------------------------
(* Identity / timestamp utility: js/storage.js *)

\* generateId(): time-based prefix + random suffix; the n-th call yields an id
\* no earlier call and no caller has used.
generateId(n) == 100 + n

\* getTimestamp(): new Date().toISOString() at tick t
getTimestamp(t) == t

\* Word.formatDate(new Date(), 'MMDDHHmm') at tick t: month, day, hour and
\* minute of the local time; the year and the seconds are not part of it.
MinutesPerYear == 527040
formatDate(t) == (t \div TicksPerMinute) % MinutesPerYear

-----------------------------------------------------------------------------
(* Entities *)

Name(base) == [base |-> base, sfx |-> <<>>]

Template(id, name, c, u) ==
    [id |-> id, name |-> name, createdAt |-> c, updatedAt |-> u]

Record(id, tid, c, u) ==
    [id |-> id, templateId |-> tid, createdAt |-> c, updatedAt |-> u]

\* JSON.parse(JSON.stringify(e)): a property whose value is undefined is
\* dropped, every other property of these entities is written and read back.
Undefined == -1
ScalarProps == {"id", "templateId", "createdAt", "updatedAt"}
JSONRoundTrip(e) ==
    LET kept == {f \in DOMAIN e : f \notin ScalarProps \/ e[f] # Undefined}
    IN  IF kept = DOMAIN e THEN e ELSE [f \in kept |-> e[f]]

-----------------------------------------------------------------------------
(* Sequences and orders *)

\* every enumeration order of a finite set
RECURSIVE Perms(_)
Perms(S) ==
    IF S = {} THEN {<<>>}
    ELSE UNION {{<<x>> \o p : p \in Perms(S \ {x})} : x \in S}

\* Array.prototype.sort((a, b) => new Date(b[f]) - new Date(a[f])): stable,
\* descending by f
RECURSIVE sortDesc(_, _)
sortDesc(s, f) ==
    IF s = <<>> THEN <<>>
    ELSE LET rest == sortDesc(Tail(s), f)
             h == Head(s)
             k == Cardinality({i \in DOMAIN rest : rest[i][f] > h[f]})
         IN  SubSeq(rest, 1, k) \o <<h>> \o SubSeq(rest, k + 1, Len(rest))

\* IDBObjectStore.getAll(): ascending by primary key
RECURSIVE keyOrder(_)
keyOrder(S) ==
    IF S = {} THEN <<>>
    ELSE LET m == CHOOSE x \in S : \A y \in S : x.id <= y.id
         IN  <<m>> \o keyOrder(S \ {m})

\* Array.prototype.filter
RECURSIVE filter(_, _)
filter(s, keep) ==
    IF s = <<>> THEN <<>>
    ELSE (IF Head(s) \in keep THEN <<Head(s)>> ELSE <<>>) \o filter(Tail(s), keep)

\* Array.prototype.find(r => r.id === id), as a list of 0 or 1
RECURSIVE find(_, _)
find(s, id) ==
    IF s = <<>> THEN <<>>
    ELSE IF Head(s).id = id THEN <<Head(s)>> ELSE find(Tail(s), id)

-----------------------------------------------------------------------------
(* Backend A, the transactional store: js/storage.js *)

\* IDBObjectStore.put / delete on a store with keyPath 'id'
idbPut(store, e) == {x \in store : x.id # e.id} \cup {e}
idbDelete(store, id) == {x \in store : x.id # id}

\* saveTemplate / saveRecord: the object handed to store.put
Storage_saveData(e, now, gid) ==
    [e EXCEPT !.id = IF e.id = NoId THEN gid ELSE e.id,
              !.createdAt = IF e.createdAt = NoTime THEN now ELSE e.createdAt,
              !.updatedAt = now]

\* getAllTemplates: getAll(), newest updatedAt first
Storage_getAllTemplates(T) == sortDesc(keyOrder(T), "updatedAt")

\* getTemplateById / getRecordById: request.result || null, as a list of 0 or 1
Storage_getById(store, id) == keyOrder({x \in store : x.id = id})

\* deleteTemplate: store.delete(id) on the templates store only
Storage_deleteTemplate(T, id) == idbDelete(T, id)

\* getAllRecords: getAll(), newest createdAt first
Storage_getAllRecords(R) == sortDesc(keyOrder(R), "createdAt")

\* getRecordsByTemplateId: index.getAll(templateId), newest createdAt first
Storage_getRecordsByTemplateId(R, tid) ==
    sortDesc(keyOrder({r \in R : r.templateId = tid}), "createdAt")

\* deleteRecordsByTemplateId: deleteRecord for every record of the template
Storage_deleteRecordsByTemplateId(R, tid) == {r \in R : r.templateId # tid}

\* isTemplateNameExists(name, excludeId)
Storage_isTemplateNameExists(T, name, excludeId) ==
    \E t \in T : t.name = name /\ t.id # excludeId

-----------------------------------------------------------------------------
(* Backend B, the file store: js/storage-file.js *)

Answers == {"granted", "denied", "throws"}   \* outcomes of requestPermission

\* loadWorkspaceHandle: the cached handle is returned when queryPermission says
\* 'granted' or 'prompt'; for 'prompt' requestPermission is awaited and its
\* answer is not looked at; an exception makes the function return null.
handleLoaded(ans) ==
    cachedHandle /\ (perm = "granted" \/ (perm = "prompt" /\ ans # "throws"))

permAfterLoad(ans) ==
    IF cachedHandle /\ perm = "prompt" /\ ans # "throws" THEN ans ELSE perm

\* getWorkspace: the held handle, else the loaded one, else
\* 'no workspace configured'
getWorkspace(ans) == workspaceHandle \/ handleLoaded(ans)

permAfter(ans) == IF workspaceHandle THEN perm ELSE permAfterLoad(ans)

\* the directory operations that follow getWorkspace succeed only with
\* readwrite permission on the handle
usable(ans) == getWorkspace(ans) /\ permAfter(ans) = "granted"

\* saveTemplateToFile: templates/<id>.json is created or replaced
saveTemplateToFile(T, t) ==
    {x \in T : x.id # t.id} \cup {JSONRoundTrip(t)}

\* saveRecordToFile: records/<templateId>/<id>.json is created or replaced
saveRecordToFile(R, r) ==
    {x \in R : ~(x.templateId = r.templateId /\ x.id = r.id)} \cup {JSONRoundTrip(r)}

\* loadTemplatesFromFiles: directory entries in the order the directory yields
\* them (order), then newest updatedAt first
loadTemplatesFromFiles(order) == sortDesc(order, "updatedAt")

\* loadTemplateFromFile: the file's content; a missing file is an exception
templateFileExists(T, id) == \E x \in T : x.id = id

\* deleteTemplateFile: removeEntry(<id>.json)
deleteTemplateFile(T, id) == {x \in T : x.id # id}

\* loadRecordsFromFiles(templateId): the files of records/<templateId>/
recordFiles(R, tid) == {r \in R : r.templateId = tid}

\* deleteRecordFile(record): removeEntry in records/<record.templateId>/
deleteRecordFile(R, r) ==
    {x \in R : ~(x.templateId = r.templateId /\ x.id = r.id)}

\* deleteRecordsByTemplateId: removeEntry(templateId, {recursive: true})
FileStorage_deleteRecordsByTemplateId(R, tid) == {r \in R : r.templateId # tid}

\* loadTemplatesFromFiles(): the lists it can return; every failure, a
\* missing workspace included, is caught and gives []
FileStorage_loadTemplatesFromFiles(ans) ==
    IF usable(ans) THEN {loadTemplatesFromFiles(order) : order \in Perms(fsT)}
    ELSE {<<>>}

\* loadTemplateFromFile(id): the values it can return; none when it throws
\* ('template does not exist')
FileStorage_loadTemplateFromFile(id, ans) ==
    IF usable(ans) /\ templateFileExists(fsT, id)
    THEN {keyOrder({x \in fsT : x.id = id})}
    ELSE {}

\* loadRecordsFromFiles(): every record file of every subfolder, in the order
\* the directories yield them, unsorted; [] on failure
FileStorage_loadRecordsFromFiles(ans) ==
    IF usable(ans) THEN Perms(fsR) ELSE {<<>>}

\* loadRecordsFromFiles(templateId): the files of that subfolder; [] when the
\* subfolder does not exist
FileStorage_loadRecordsOfTemplate(tid, ans) ==
    IF usable(ans) THEN Perms(recordFiles(fsR, tid)) ELSE {<<>>}

-----------------------------------------------------------------------------
(* Observation of a call *)

NoObs ==
    [op |-> "none", mode |-> "file", ok |-> TRUE, err |-> "", arg |-> <<>>,
     id |-> NoId, res |-> <<>>, touched |-> {}, ptype |-> "", strategy |-> "",
     action |-> "", t0 |-> 0, okF |-> TRUE, resF |-> <<>>, version |-> ""]

Obs(op) == [NoObs EXCEPT !.op = op, !.mode = storageMode, !.t0 = clock]

\* the store the adapter routes a call to
routed == IF storageMode = "file" THEN {"fs"} ELSE {"idb"}

\* the answers requestPermission can give in the current state
AnswersNow ==
    IF ~workspaceHandle /\ cachedHandle /\ perm = "prompt" THEN Answers ELSE {"granted"}

\* effect of FileStorage.getWorkspace() on the module state
FileEnv(ans) ==
    /\ workspaceHandle' = getWorkspace(ans)
    /\ perm' = permAfter(ans)

\* a call routed by the adapter: the file store looks up its workspace
Routed(ans) ==
    IF storageMode = "file" THEN FileEnv(ans) ELSE UNCHANGED <<workspaceHandle, perm>>

GeneratedIds == {generateId(k) : k \in 1..nextId}

\* entities a caller hands to the adapter: new ones (no id, no createdAt), and
\* ones that carry an id and possibly a createdAt
TemplateInputs ==
    {Template(NoId, Name(n), NoTime, NoTime) : n \in Names} \cup
    {Template(i, Name(n), c, NoTime) :
        i \in ExtIds \cup GeneratedIds, n \in Names, c \in {NoTime, 1}}

RecordInputs ==
    {Record(NoId, o, NoTime, NoTime) : o \in OwnerIds} \cup
    {Record(i, o, c, NoTime) :
        i \in ExtIds \cup GeneratedIds, o \in OwnerIds, c \in {NoTime, 1}}

TemplateIdArgs == ExtIds \cup GeneratedIds
RecordIdArgs == ExtIds \cup GeneratedIds

-----------------------------------------------------------------------------
(* Storage adapter: js/storage-adapter.js *)

\* saveTemplate / saveRecord, lines 59-65 and 114-120: id and timestamps
ensureIdAndTimestamps(e, now, gid) ==
    [e EXCEPT !.id = IF e.id = NoId THEN gid ELSE e.id,
              !.createdAt = IF e.createdAt = NoTime THEN now ELSE e.createdAt,
              !.updatedAt = now]

\* getAllTemplates(): the lists the call can return
getAllTemplates(ans) ==
    IF storageMode = "file" THEN FileStorage_loadTemplatesFromFiles(ans)
    ELSE {Storage_getAllTemplates(idbT)}

\* getTemplateById(id): the values the call can return (a list of 0 or 1);
\* no value when it throws
getTemplateById(id, ans) ==
    IF storageMode = "file" THEN FileStorage_loadTemplateFromFile(id, ans)
    ELSE {Storage_getById(idbT, id)}

\* getAllRecords()
getAllRecords(ans) ==
    IF storageMode = "file" THEN FileStorage_loadRecordsFromFiles(ans)
    ELSE {Storage_getAllRecords(idbR)}

\* getRecordsByTemplateId(templateId)
getRecordsByTemplateId(tid, ans) ==
    IF storageMode = "file" THEN FileStorage_loadRecordsOfTemplate(tid, ans)
    ELSE {Storage_getRecordsByTemplateId(idbR, tid)}

\* getRecordById(id), a list of 0 or 1: in file mode the first record with
\* that id among all the records loaded
getRecordById(id, ans) ==
    IF storageMode = "file"
    THEN {find(all, id) : all \in FileStorage_loadRecordsFromFiles(ans)}
    ELSE {Storage_getById(idbR, id)}

\* a switch that falls back to browser storage when the grant fails
switchToFileStorage_mode_reset(picked, mode) == IF picked THEN "file" ELSE "browser"

\* switchToFileStorage: the mode after the call
switchToFileStorage_mode(picked, mode) == IF picked THEN "file" ELSE mode

\* initStorage
InitStorage ==
    /\ phase = "loaded"
    /\ \E ans \in AnswersNow :
        LET has == supportsFS /\ getWorkspace(ans)
        IN  /\ storageMode' = IF has THEN "file" ELSE "browser"
            /\ workspaceHandle' = IF supportsFS THEN getWorkspace(ans) ELSE workspaceHandle
            /\ perm' = IF supportsFS THEN permAfter(ans) ELSE perm
            /\ last' = [Obs("init") EXCEPT !.touched = {}]
    /\ phase' = "ready"
    /\ UNCHANGED <<supportsFS, cachedHandle, idbT, idbR, fsT, fsR, clock, nextId, tz,
                   switched>>
    /\ UNCHANGED appVars

\* switchToFileStorage -> FileStorage.selectWorkspace
SwitchToFileStorage ==
    /\ phase = "ready"
    /\ \E userPicks \in BOOLEAN :
        LET picked == supportsFS /\ userPicks
        IN  /\ storageMode' = switchToFileStorage_mode(picked, storageMode)
            /\ workspaceHandle' = (workspaceHandle \/ picked)
            /\ cachedHandle' = (cachedHandle \/ picked)
            /\ perm' = IF picked THEN "granted" ELSE perm
            /\ switched' = (switched \/ picked)
            /\ last' = [Obs("switchToFileStorage") EXCEPT
                          !.ok = picked,
                          !.err = IF picked THEN ""
                                  ELSE IF supportsFS THEN "cancelled" ELSE "unsupported"]
    /\ UNCHANGED <<supportsFS, idbT, idbR, fsT, fsR, clock, nextId, phase, tz>>
    /\ UNCHANGED appVars

\* saveTemplate(template)
SaveTemplate ==
    /\ phase = "ready"
    /\ \E t \in TemplateInputs, ans \in AnswersNow :
        LET now == clock + 1
            t1 == ensureIdAndTimestamps(t, getTimestamp(now), generateId(nextId + 1))
            data == Storage_saveData(t1, getTimestamp(now), generateId(nextId + 1))
        IN  /\ now <= MaxClock
            /\ nextId' = IF t.id = NoId THEN nextId + 1 ELSE nextId
            /\ IF storageMode = "file"
               THEN /\ FileEnv(ans)
                    /\ fsT' = IF usable(ans) THEN saveTemplateToFile(fsT, t1) ELSE fsT
                    /\ idbT' = idbT
                    /\ clock' = now
                    /\ last' = [Obs("saveTemplate") EXCEPT
                                  !.arg = <<t>>, !.touched = routed,
                                  !.ok = usable(ans),
                                  !.err = IF usable(ans) THEN "" ELSE "save failed",
                                  !.res = IF usable(ans) THEN <<t1>> ELSE <<>>,
                                  !.id = IF usable(ans) THEN t1.id ELSE NoId]
               ELSE /\ idbT' = idbPut(idbT, data)
                    /\ clock' = now
                    /\ last' = [Obs("saveTemplate") EXCEPT
                                  !.arg = <<t>>, !.touched = routed,
                                  !.res = <<data>>, !.id = data.id]
                    /\ UNCHANGED <<workspaceHandle, perm, fsT>>
    /\ UNCHANGED <<storageMode, supportsFS, cachedHandle, idbR, fsR, phase, tz, switched>>
    /\ UNCHANGED appVars

\* getAllTemplates()
GetAllTemplates ==
    /\ phase = "ready"
    /\ \E ans \in AnswersNow :
        \E res \in getAllTemplates(ans) :
            /\ Routed(ans)
            /\ last' = [Obs("getAllTemplates") EXCEPT !.touched = routed, !.res = res]
    /\ UNCHANGED <<storageMode, supportsFS, cachedHandle, idbT, idbR, fsT, fsR,
                   clock, nextId, phase, tz, switched>>
    /\ UNCHANGED appVars

\* getTemplateById(id)
GetTemplateById ==
    /\ phase = "ready"
    /\ \E id \in TemplateIdArgs, ans \in AnswersNow :
        /\ Routed(ans)
        /\ IF getTemplateById(id, ans) = {}
           THEN last' = [Obs("getTemplateById") EXCEPT
                           !.id = id, !.touched = routed,
                           !.ok = FALSE, !.err = "template not found"]
           ELSE \E res \in getTemplateById(id, ans) :
                    last' = [Obs("getTemplateById") EXCEPT
                               !.id = id, !.touched = routed, !.res = res]
    /\ UNCHANGED <<storageMode, supportsFS, cachedHandle, idbT, idbR, fsT, fsR,
                   clock, nextId, phase, tz, switched>>
    /\ UNCHANGED appVars

\* deleteTemplate(id)
DeleteTemplate ==
    /\ phase = "ready"
    /\ \E id \in TemplateIdArgs, ans \in AnswersNow :
        IF storageMode = "file"
        THEN LET removed == usable(ans) /\ templateFileExists(fsT, id)
             IN  /\ FileEnv(ans)
                 /\ fsT' = IF removed THEN deleteTemplateFile(fsT, id) ELSE fsT
                 /\ fsR' = IF removed THEN FileStorage_deleteRecordsByTemplateId(fsR, id)
                           ELSE fsR
                 /\ last' = [Obs("deleteTemplate") EXCEPT
                               !.id = id, !.touched = routed,
                               !.ok = removed,
                               !.err = IF removed THEN "" ELSE "delete template failed"]
                 /\ UNCHANGED <<idbT, idbR>>
        ELSE /\ idbT' = Storage_deleteTemplate(idbT, id)
             /\ last' = [Obs("deleteTemplate") EXCEPT !.id = id, !.touched = routed]
             /\ UNCHANGED <<workspaceHandle, perm, idbR, fsT, fsR>>
    /\ UNCHANGED <<storageMode, supportsFS, cachedHandle, clock, nextId, phase, tz, switched>>
    /\ UNCHANGED appVars

\* saveRecord(record)
SaveRecord ==
    /\ phase = "ready"
    /\ \E r \in RecordInputs, ans \in AnswersNow :
        LET now == clock + 1
            r1 == ensureIdAndTimestamps(r, getTimestamp(now), generateId(nextId + 1))
            data == Storage_saveData(r1, getTimestamp(now), generateId(nextId + 1))
        IN  /\ now <= MaxClock
            /\ nextId' = IF r.id = NoId THEN nextId + 1 ELSE nextId
            /\ IF storageMode = "file"
               THEN /\ FileEnv(ans)
                    /\ fsR' = IF usable(ans) THEN saveRecordToFile(fsR, r1) ELSE fsR
                    /\ idbR' = idbR
                    /\ clock' = now
                    /\ last' = [Obs("saveRecord") EXCEPT
                                  !.arg = <<r>>, !.touched = routed,
                                  !.ok = usable(ans),
                                  !.err = IF usable(ans) THEN "" ELSE "save failed",
                                  !.res = IF usable(ans) THEN <<r1>> ELSE <<>>,
                                  !.id = IF usable(ans) THEN r1.id ELSE NoId]
               ELSE /\ idbR' = idbPut(idbR, data)
                    /\ clock' = now
                    /\ last' = [Obs("saveRecord") EXCEPT
                                  !.arg = <<r>>, !.touched = routed,
                                  !.res = <<data>>, !.id = data.id]
                    /\ UNCHANGED <<workspaceHandle, perm, fsR>>
    /\ UNCHANGED <<storageMode, supportsFS, cachedHandle, idbT, fsT, phase, tz, switched>>
    /\ UNCHANGED appVars

\* getAllRecords()
GetAllRecords ==
    /\ phase = "ready"
    /\ \E ans \in AnswersNow :
        \E res \in getAllRecords(ans) :
            /\ Routed(ans)
            /\ last' = [Obs("getAllRecords") EXCEPT !.touched = routed, !.res = res]
    /\ UNCHANGED <<storageMode, supportsFS, cachedHandle, idbT, idbR, fsT, fsR,
                   clock, nextId, phase, tz, switched>>
    /\ UNCHANGED appVars

\* getRecordsByTemplateId(templateId)
GetRecordsByTemplateId ==
    /\ phase = "ready"
    /\ \E tid \in OwnerIds, ans \in AnswersNow :
        \E res \in getRecordsByTemplateId(tid, ans) :
            /\ Routed(ans)
            /\ last' = [Obs("getRecordsByTemplateId") EXCEPT
                          !.id = tid, !.touched = routed, !.res = res]
    /\ UNCHANGED <<storageMode, supportsFS, cachedHandle, idbT, idbR, fsT, fsR,
                   clock, nextId, phase, tz, switched>>
    /\ UNCHANGED appVars

\* getRecordById(id)
GetRecordById ==
    /\ phase = "ready"
    /\ \E id \in RecordIdArgs, ans \in AnswersNow :
        \E res \in getRecordById(id, ans) :
            /\ Routed(ans)
            /\ last' = [Obs("getRecordById") EXCEPT
                          !.id = id, !.touched = routed, !.res = res]
    /\ UNCHANGED <<storageMode, supportsFS, cachedHandle, idbT, idbR, fsT, fsR,
                   clock, nextId, phase, tz, switched>>
    /\ UNCHANGED appVars

\* deleteRecord(id)
DeleteRecord ==
    /\ phase = "ready"
    /\ \E id \in RecordIdArgs, ans \in AnswersNow :
        IF storageMode = "file"
        THEN \E record \in getRecordById(id, ans) :
                 /\ FileEnv(ans)
                 /\ fsR' = IF record # <<>> THEN deleteRecordFile(fsR, record[1]) ELSE fsR
                 /\ idbR' = idbR
                 /\ last' = [Obs("deleteRecord") EXCEPT !.id = id, !.touched = routed]
        ELSE /\ idbR' = idbDelete(idbR, id)
             /\ last' = [Obs("deleteRecord") EXCEPT !.id = id, !.touched = routed]
             /\ UNCHANGED <<workspaceHandle, perm, fsR>>
    /\ UNCHANGED <<storageMode, supportsFS, cachedHandle, idbT, fsT,
                   clock, nextId, phase, tz, switched>>
    /\ UNCHANGED appVars

\* deleteRecordsByTemplateId(templateId)
DeleteRecordsByTemplateId ==
    /\ phase = "ready"
    /\ \E tid \in OwnerIds, ans \in AnswersNow :
        IF storageMode = "file"
        THEN /\ FileEnv(ans)
             /\ fsR' = IF usable(ans) THEN FileStorage_deleteRecordsByTemplateId(fsR, tid)
                       ELSE fsR
             /\ idbR' = idbR
             /\ last' = [Obs("deleteRecordsByTemplateId") EXCEPT
                           !.id = tid, !.touched = routed,
                           !.ok = usable(ans),
                           !.err = IF usable(ans) THEN "" ELSE "delete records failed"]
        ELSE /\ idbR' = Storage_deleteRecordsByTemplateId(idbR, tid)
             /\ last' = [Obs("deleteRecordsByTemplateId") EXCEPT
                           !.id = tid, !.touched = routed]
             /\ UNCHANGED <<workspaceHandle, perm, fsR>>
    /\ UNCHANGED <<storageMode, supportsFS, cachedHandle, idbT, fsT,
                   clock, nextId, phase, tz, switched>>
    /\ UNCHANGED appVars

-----------------------------------------------------------------------------
(* Calls that the adapter object binds to the transactional store, and app   *)
(* actions that call it by name                                              *)

\* the templates the template list shows (loadTemplateList)
ListedTemplateIds ==
    IF storageMode = "file"
    THEN (IF workspaceHandle /\ perm = "granted" THEN {t.id : t \in fsT} ELSE {})
    ELSE {t.id : t \in idbT}

\* the 'delete' button of confirmDeleteTemplate
ConfirmDeleteTemplate ==
    /\ phase = "ready"
    /\ \E id \in ListedTemplateIds :
        /\ idbR' = Storage_deleteRecordsByTemplateId(idbR, id)
        /\ IF storageMode = "file"
           THEN /\ fsT' = deleteTemplateFile(fsT, id)
                /\ fsR' = FileStorage_deleteRecordsByTemplateId(fsR, id)
                /\ idbT' = idbT
           ELSE /\ idbT' = Storage_deleteTemplate(idbT, id)
                /\ UNCHANGED <<fsT, fsR>>
        /\ last' = [Obs("confirmDeleteTemplate") EXCEPT
                      !.id = id, !.touched = {"idb"} \cup routed]
    /\ UNCHANGED <<storageMode, workspaceHandle, supportsFS, cachedHandle, perm,
                   clock, nextId, phase, tz, switched>>
    /\ UNCHANGED appVars

\* loadFromHistory: the records listed for AppState.currentTemplate
LoadFromHistory ==
    /\ phase = "ready"
    /\ \E id \in ListedTemplateIds :
        last' = [Obs("loadFromHistory") EXCEPT
                   !.id = id, !.touched = {"idb"},
                   !.res = Storage_getRecordsByTemplateId(idbR, id)]
    /\ UNCHANGED <<storageMode, workspaceHandle, supportsFS, cachedHandle, perm,
                   idbT, idbR, fsT, fsR, clock, nextId, phase, tz, switched>>
    /\ UNCHANGED appVars

\* StorageAdapter.isTemplateNameExists = Storage.isTemplateNameExists
IsTemplateNameExists ==
    /\ phase = "ready"
    /\ \E n \in Names :
        last' = [Obs("isTemplateNameExists") EXCEPT
                   !.touched = {"idb"},
                   !.action = IF Storage_isTemplateNameExists(idbT, Name(n), NoId)
                              THEN "true" ELSE "false"]
    /\ UNCHANGED <<storageMode, workspaceHandle, supportsFS, cachedHandle, perm,
                   idbT, idbR, fsT, fsR, clock, nextId, phase, tz, switched>>
    /\ UNCHANGED appVars

\* StorageAdapter.clearAllData = Storage.clearAllData
ClearAllData ==
    /\ phase = "ready"
    /\ idbT' = {}
    /\ idbR' = {}
    /\ last' = [Obs("clearAllData") EXCEPT !.touched = {"idb"}]
    /\ UNCHANGED <<storageMode, workspaceHandle, supportsFS, cachedHandle, perm,
                   fsT, fsR, clock, nextId, phase, tz, switched>>
    /\ UNCHANGED appVars

\* StorageAdapter.downloadBackupFile = Storage.downloadBackupFile
DownloadBackupFile ==
    /\ phase = "ready"
    /\ last' = [Obs("downloadBackupFile") EXCEPT
                  !.touched = {"idb"},
                  !.res = Storage_getAllTemplates(idbT)]
    /\ UNCHANGED <<storageMode, workspaceHandle, supportsFS, cachedHandle, perm,
                   idbT, idbR, fsT, fsR, clock, nextId, phase, tz, switched>>
    /\ UNCHANGED appVars

-----------------------------------------------------------------------------
(* The adapter and the app actions around it *)

Init ==
    /\ storageMode = "file"
    /\ workspaceHandle = FALSE
    /\ supportsFS \in BOOLEAN
    /\ cachedHandle \in BOOLEAN
    /\ perm \in {"granted", "prompt", "denied"}
    /\ ~cachedHandle => perm = "prompt"
    /\ idbT = {}
    /\ idbR = {}
    /\ fsT = {}
    /\ fsR = {}
    /\ clock = 1
    /\ nextId = 0
    /\ phase = "loaded"
    /\ tz = 0
    /\ switched = FALSE
    /\ last = NoObs
    /\ NoSession

Next ==
    \/ InitStorage
    \/ SwitchToFileStorage
    \/ SaveTemplate
    \/ GetAllTemplates
    \/ GetTemplateById
    \/ DeleteTemplate
    \/ SaveRecord
    \/ GetAllRecords
    \/ GetRecordsByTemplateId
    \/ GetRecordById
    \/ DeleteRecord
    \/ DeleteRecordsByTemplateId
    \/ ConfirmDeleteTemplate
    \/ LoadFromHistory
    \/ IsTemplateNameExists
    \/ ClearAllData
    \/ DownloadBackupFile

Spec == Init /\ [][Next]_vars

-----------------------------------------------------------------------------
(* Claims about the adapter, checked under Spec *)

SaveOps == {"saveTemplate", "saveRecord"}

\* what a get-by-id that follows the call can return, for the kind of entity
\* the last call saved
getByIdAfterSave(id) ==
    IF last.op = "saveTemplate" THEN getTemplateById(id, "granted")
    ELSE getRecordById(id, "granted")

\* C1: after a successful saveTemplate / saveRecord in either mode, the saved
\* entity has a fresh id when it came without one and its own id otherwise,
\* keeps a given createdAt and otherwise gets the time of the save, has
\* updatedAt equal to the time of the save, and a following get-by-id with the
\* returned id returns exactly the saved entity.
C1_SaveRoundTrip ==
    (last.op \in SaveOps /\ last.ok) =>
        LET e == last.arg[1]
            saved == last.res[1]
        IN  /\ saved.id # NoId
            /\ e.id = NoId => saved.id = generateId(nextId)
            /\ e.id # NoId => saved.id = e.id
            /\ e.createdAt # NoTime => saved.createdAt = e.createdAt
            /\ e.createdAt = NoTime => saved.createdAt = getTimestamp(clock)
            /\ saved.updatedAt = getTimestamp(clock)
            /\ getByIdAfterSave(saved.id) = {<<saved>>}

\* C2: after a successful deleteTemplate(id) in either mode,
\* getRecordsByTemplateId(id) returns the empty list.
C2_DeleteCascades ==
    (last.op = "deleteTemplate" /\ last.ok) =>
        getRecordsByTemplateId(last.id, "granted") = {<<>>}

\* C3: every adapter operation and every storage access of the app's actions
\* touches only the backend that is active when the call is made.
C3_OnlyActiveBackend ==
    last.touched \subseteq (IF last.mode = "file" THEN {"fs"} ELSE {"idb"})

CrudOps ==
    {"saveTemplate", "getAllTemplates", "getTemplateById", "deleteTemplate",
     "saveRecord", "getAllRecords", "getRecordsByTemplateId", "getRecordById",
     "deleteRecord", "deleteRecordsByTemplateId"}

\* C5: once switchToFileStorage has succeeded the mode is 'file' and stays
\* 'file' whatever is called afterwards, failing calls included; a
\* switchToFileStorage that fails or is cancelled leaves the mode as it was.
C5_ModeStaysFile ==
    /\ [](switched => storageMode = "file")
    /\ [][(last'.op = "switchToFileStorage" /\ ~last'.ok) => storageMode' = storageMode]_vars

\* a call failed in file mode after a successful switch
C5_Witness ==
    /\ switched
    /\ last.op \in CrudOps
    /\ ~last.ok
    /\ storageMode = "file"

-----------------------------------------------------------------------------
(* The two backends side by side.  Every call is made on the transactional   *)
(* store as the adapter makes it in 'browser' mode and on the file store as  *)
(* it makes it in 'file' mode, with a workspace that is held and granted;    *)
(* res / ok is the browser-mode outcome, resF / okF the file-mode outcome.   *)

BothObs(op) == [NoObs EXCEPT !.op = op, !.mode = "both", !.t0 = clock]

SaveTemplateBoth ==
    /\ \E t \in TemplateInputs :
        LET now == clock + 1
            t1 == ensureIdAndTimestamps(t, getTimestamp(now), generateId(nextId + 1))
            data == Storage_saveData(t1, getTimestamp(now), generateId(nextId + 1))
        IN  /\ now <= MaxClock
            /\ nextId' = IF t.id = NoId THEN nextId + 1 ELSE nextId
            /\ clock' = now
            /\ idbT' = idbPut(idbT, data)
            /\ fsT' = IF usable("granted") THEN saveTemplateToFile(fsT, t1) ELSE fsT
            /\ last' = [BothObs("saveTemplate") EXCEPT
                          !.arg = <<t>>, !.res = <<data>>,
                          !.okF = usable("granted"),
                          !.resF = IF usable("granted") THEN <<t1>> ELSE <<>>]
    /\ UNCHANGED <<storageMode, workspaceHandle, supportsFS, cachedHandle, perm,
                   idbR, fsR, phase, tz, switched>>
    /\ UNCHANGED appVars

GetAllTemplatesBoth ==
    /\ \E resF \in FileStorage_loadTemplatesFromFiles("granted") :
        last' = [BothObs("getAllTemplates") EXCEPT
                   !.res = Storage_getAllTemplates(idbT), !.resF = resF]
    /\ UNCHANGED <<storageMode, workspaceHandle, supportsFS, cachedHandle, perm,
                   idbT, idbR, fsT, fsR, clock, nextId, phase, tz, switched>>
    /\ UNCHANGED appVars

GetTemplateByIdBoth ==
    /\ \E id \in TemplateIdArgs :
        LET found == FileStorage_loadTemplateFromFile(id, "granted")
        IN  IF found = {}
            THEN last' = [BothObs("getTemplateById") EXCEPT
                            !.id = id, !.res = Storage_getById(idbT, id),
                            !.okF = FALSE]
            ELSE \E resF \in found :
                     last' = [BothObs("getTemplateById") EXCEPT
                                !.id = id, !.res = Storage_getById(idbT, id),
                                !.resF = resF]
    /\ UNCHANGED <<storageMode, workspaceHandle, supportsFS, cachedHandle, perm,
                   idbT, idbR, fsT, fsR, clock, nextId, phase, tz, switched>>
    /\ UNCHANGED appVars

DeleteTemplateBoth ==
    /\ \E id \in TemplateIdArgs :
        LET removed == usable("granted") /\ templateFileExists(fsT, id)
        IN  /\ idbT' = Storage_deleteTemplate(idbT, id)
            /\ fsT' = IF removed THEN deleteTemplateFile(fsT, id) ELSE fsT
            /\ fsR' = IF removed THEN FileStorage_deleteRecordsByTemplateId(fsR, id)
                      ELSE fsR
            /\ last' = [BothObs("deleteTemplate") EXCEPT !.id = id, !.okF = removed]
    /\ UNCHANGED <<storageMode, workspaceHandle, supportsFS, cachedHandle, perm,
                   idbR, clock, nextId, phase, tz, switched>>
    /\ UNCHANGED appVars

SaveRecordBoth ==
    /\ \E r \in RecordInputs :
        LET now == clock + 1
            r1 == ensureIdAndTimestamps(r, getTimestamp(now), generateId(nextId + 1))
            data == Storage_saveData(r1, getTimestamp(now), generateId(nextId + 1))
        IN  /\ now <= MaxClock
            /\ nextId' = IF r.id = NoId THEN nextId + 1 ELSE nextId
            /\ clock' = now
            /\ idbR' = idbPut(idbR, data)
            /\ fsR' = IF usable("granted") THEN saveRecordToFile(fsR, r1) ELSE fsR
            /\ last' = [BothObs("saveRecord") EXCEPT
                          !.arg = <<r>>, !.res = <<data>>,
                          !.okF = usable("granted"),
                          !.resF = IF usable("granted") THEN <<r1>> ELSE <<>>]
    /\ UNCHANGED <<storageMode, workspaceHandle, supportsFS, cachedHandle, perm,
                   idbT, fsT, phase, tz, switched>>
    /\ UNCHANGED appVars

GetAllRecordsBoth ==
    /\ \E resF \in FileStorage_loadRecordsFromFiles("granted") :
        last' = [BothObs("getAllRecords") EXCEPT
                   !.res = Storage_getAllRecords(idbR), !.resF = resF]
    /\ UNCHANGED <<storageMode, workspaceHandle, supportsFS, cachedHandle, perm,
                   idbT, idbR, fsT, fsR, clock, nextId, phase, tz, switched>>
    /\ UNCHANGED appVars

GetRecordsByTemplateIdBoth ==
    /\ \E tid \in OwnerIds :
        \E resF \in FileStorage_loadRecordsOfTemplate(tid, "granted") :
            last' = [BothObs("getRecordsByTemplateId") EXCEPT
                       !.id = tid, !.res = Storage_getRecordsByTemplateId(idbR, tid),
                       !.resF = resF]
    /\ UNCHANGED <<storageMode, workspaceHandle, supportsFS, cachedHandle, perm,
                   idbT, idbR, fsT, fsR, clock, nextId, phase, tz, switched>>
    /\ UNCHANGED appVars

GetRecordByIdBoth ==
    /\ \E id \in RecordIdArgs :
        \E all \in FileStorage_loadRecordsFromFiles("granted") :
            last' = [BothObs("getRecordById") EXCEPT
                       !.id = id, !.res = Storage_getById(idbR, id),
                       !.resF = find(all, id)]
    /\ UNCHANGED <<storageMode, workspaceHandle, supportsFS, cachedHandle, perm,
                   idbT, idbR, fsT, fsR, clock, nextId, phase, tz, switched>>
    /\ UNCHANGED appVars

DeleteRecordBoth ==
    /\ \E id \in RecordIdArgs :
        \E all \in FileStorage_loadRecordsFromFiles("granted") :
            LET record == find(all, id)
            IN  /\ idbR' = idbDelete(idbR, id)
                /\ fsR' = IF record # <<>> THEN deleteRecordFile(fsR, record[1]) ELSE fsR
                /\ last' = [BothObs("deleteRecord") EXCEPT !.id = id]
    /\ UNCHANGED <<storageMode, workspaceHandle, supportsFS, cachedHandle, perm,
                   idbT, fsT, clock, nextId, phase, tz, switched>>
    /\ UNCHANGED appVars

DeleteRecordsByTemplateIdBoth ==
    /\ \E tid \in OwnerIds :
        /\ idbR' = Storage_deleteRecordsByTemplateId(idbR, tid)
        /\ fsR' = IF usable("granted") THEN FileStorage_deleteRecordsByTemplateId(fsR, tid)
                  ELSE fsR
        /\ last' = [BothObs("deleteRecordsByTemplateId") EXCEPT
                      !.id = tid, !.okF = usable("granted")]
    /\ UNCHANGED <<storageMode, workspaceHandle, supportsFS, cachedHandle, perm,
                   idbT, fsT, clock, nextId, phase, tz, switched>>
    /\ UNCHANGED appVars

\* both stores empty, a workspace selected and granted
InitEquiv ==
    /\ storageMode = "file"
    /\ workspaceHandle = TRUE
    /\ supportsFS = TRUE
    /\ cachedHandle = TRUE
    /\ perm = "granted"
    /\ idbT = {}
    /\ idbR = {}
    /\ fsT = {}
    /\ fsR = {}
    /\ clock = 1
    /\ nextId = 0
    /\ phase = "ready"
    /\ tz = 0
    /\ switched = TRUE
    /\ last = NoObs
    /\ NoSession

NextEquiv ==
    \/ SaveTemplateBoth
    \/ GetAllTemplatesBoth
    \/ GetTemplateByIdBoth
    \/ DeleteTemplateBoth
    \/ SaveRecordBoth
    \/ GetAllRecordsBoth
    \/ GetRecordsByTemplateIdBoth
    \/ GetRecordByIdBoth
    \/ DeleteRecordBoth
    \/ DeleteRecordsByTemplateIdBoth

SpecEquiv == InitEquiv /\ [][NextEquiv]_vars

\* C4: the same sequence of calls, started from empty stores, gives the same
\* outcome for every call in 'browser' mode and in 'file' mode: the same
\* success or failure and the same result, the order of lists included.
C4_BackendsEquivalent ==
    last.mode = "both" => (last.ok = last.okF /\ last.res = last.resF)

-----------------------------------------------------------------------------
(* The date filter: js/storage-adapter.js, getRecordsByDateRange.  In this   *)
(* part of the model createdAt and every instant is in seconds, UTC.         *)

MaxDay == 2                    \* calendar days 0..MaxDay
Days == 1..MaxDay              \* the days a query names
NoDay == 0                     \* an absent bound (null, '')
TimeZones == {-5, 0, 8, 12}    \* offsets of local time from UTC, in hours
HoursOfDay == {4, 12, 20}      \* hours (UTC) at which records were created

SecondsPerHour == 3600
SecondsPerDay == 86400

\* the instant of h:00:00Z on day d
Instant(d, h) == d * SecondsPerDay + h * SecondsPerHour

\* new Date('YYYY-MM-DD'): the date-only form is read as UTC midnight
parseDateOnly(d) == d * SecondsPerDay

\* new Date('YYYY-MM-DD' + 'T23:59:59'): the date-time form without an offset
\* is read as local time
parseLocalDateTime(d, offset) ==
    d * SecondsPerDay + (SecondsPerDay - 1) - offset * SecondsPerHour

\* the callback of records.filter
dateRangeKeeps(record, startDate, endDate, offset) ==
    /\ ~(startDate # NoDay /\ record.createdAt < parseDateOnly(startDate))
    /\ ~(endDate # NoDay /\ record.createdAt > parseLocalDateTime(endDate, offset))

\* getRecordsByDateRange(templateId, startDate, endDate): the lists the call
\* can return
getRecordsByDateRange(templateId, startDate, endDate, ans) ==
    {filter(records, {r \in {records[i] : i \in DOMAIN records} :
                         dateRangeKeeps(r, startDate, endDate, tz)}) :
        records \in IF templateId # NoId THEN getRecordsByTemplateId(templateId, ans)
                    ELSE getAllRecords(ans)}

GetRecordsByDateRange ==
    /\ phase = "ready"
    /\ \E templateId \in {NoId} \cup OwnerIds,
          startDate \in {NoDay} \cup Days, endDate \in {NoDay} \cup Days,
          ans \in AnswersNow :
        \E res \in getRecordsByDateRange(templateId, startDate, endDate, ans) :
            /\ Routed(ans)
            /\ last' = [Obs("getRecordsByDateRange") EXCEPT
                          !.id = templateId, !.arg = <<startDate, endDate>>,
                          !.touched = routed, !.res = res]
    /\ UNCHANGED <<storageMode, supportsFS, cachedHandle, idbT, idbR, fsT, fsR,
                   clock, nextId, phase, tz, switched>>
    /\ UNCHANGED appVars

\* the records a store can hold after two saves: ids generateId(1) and
\* generateId(2), any owner, created at any of the instants
DatedRecords(k) ==
    {Record(generateId(k), o, Instant(d, h), Instant(d, h)) :
        o \in OwnerIds, d \in 0..MaxDay, h \in HoursOfDay}

DatedStores ==
    {{}} \cup {{r} : r \in DatedRecords(1)}
         \cup {{r1, r2} : r1 \in DatedRecords(1), r2 \in DatedRecords(2)}

InitDate ==
    /\ storageMode \in {"browser", "file"}
    /\ workspaceHandle = (storageMode = "file")
    /\ supportsFS = (storageMode = "file")
    /\ cachedHandle = (storageMode = "file")
    /\ perm = IF storageMode = "file" THEN "granted" ELSE "prompt"
    /\ idbT = {}
    /\ fsT = {}
    /\ idbR \in IF storageMode = "browser" THEN DatedStores ELSE {{}}
    /\ fsR \in IF storageMode = "file" THEN DatedStores ELSE {{}}
    /\ clock = Instant(MaxDay + 1, 0)
    /\ nextId = 2
    /\ phase = "ready"
    /\ tz \in TimeZones
    /\ switched = FALSE
    /\ last = NoObs
    /\ NoSession

NextDate == GetRecordsByDateRange

SpecDate == InitDate /\ [][NextDate]_vars

\* the records among which the last date query selected
C6_superset ==
    IF last.mode = "file"
    THEN (IF last.id # NoId THEN recordFiles(fsR, last.id) ELSE fsR)
    ELSE (IF last.id # NoId THEN {r \in idbR : r.templateId = last.id} ELSE idbR)

\* start 00:00:00 <= t <= end 23:59:59, both read on the clock whose offset
\* from UTC is the given number of hours
C6_inRange(t, startDate, endDate, offset) ==
    /\ startDate # NoDay => startDate * SecondsPerDay - offset * SecondsPerHour <= t
    /\ endDate # NoDay =>
           t <= endDate * SecondsPerDay + (SecondsPerDay - 1) - offset * SecondsPerHour

C6_returned == {last.res[i] : i \in DOMAIN last.res}

\* C6: getRecordsByDateRange returns exactly the records of the selected
\* superset whose createdAt lies between start 00:00:00 and end 23:59:59 read
\* on one clock (UTC, or the local one), an absent bound not constraining; a
\* record created at 12:00:00Z on day D is returned for start = end = D and
\* is not returned for end = D-1.
C6_DateRangeExact ==
    last.op = "getRecordsByDateRange" =>
        LET startDate == last.arg[1]
            endDate == last.arg[2]
        IN  /\ \E offset \in {0, tz} :
                   C6_returned =
                       {r \in C6_superset :
                           C6_inRange(r.createdAt, startDate, endDate, offset)}
            /\ \A r \in C6_superset, D \in Days :
                   r.createdAt = Instant(D, 12) =>
                       /\ (startDate = D /\ endDate = D) => r \in C6_returned
                       /\ (endDate # NoDay /\ endDate = D - 1) => r \notin C6_returned

-----------------------------------------------------------------------------
(* Pack import: js/export.js *)

PackTypes == {"template", "records", "full_backup", "none"}   \* "none": no type
Strategies == {"overwrite", "rename", "skip"}

\* all lists over S of length at most n
SeqsUpTo(S, n) == UNION {[1..k -> S] : k \in 0..n}

\* the template of a pack written by createTemplatePack at tick 1
PackTemplates == {Template(i, Name(n), 1, 1) : i \in ExtIds, n \in Names}

\* the records of a pack written by createRecordsPack at tick 1
PackRecords == {Record(i, o, 1, 1) : i \in ExtIds, o \in ExtIds}

\* export.js line 13
PACK_VERSION == "1.0.0"

\* the version a pack file carries: the one this program writes, and one it
\* does not know
PackVersions == {PACK_VERSION, "2.0.0"}

\* a file whose content JSON.parse rejects
NotJSON == [json |-> FALSE, type |-> "none", version |-> PACK_VERSION, body |-> <<>>]

\* files handed to importTemplatePack: body is pack.template, <<>> when absent.
\* The packs createTemplatePack writes, the same packs under another type or
\* without a type, a pack without its template, and a file that is not JSON.
TemplatePacks ==
    {NotJSON} \cup
    {[json |-> TRUE, type |-> "template", version |-> v, body |-> b] :
        v \in PackVersions, b \in {<<>>} \cup {<<t>> : t \in PackTemplates}} \cup
    {[json |-> TRUE, type |-> ty, version |-> PACK_VERSION, body |-> <<t>>] :
        ty \in PackTypes \ {"template"}, t \in PackTemplates}

\* the pack check that accepts every type
typeMatches_any(pack, expected) == TRUE

\* !pack.type || pack.type !== expected
typeMatches(pack, expected) == pack.type = expected

\* existingTemplates.find(t => t.name === name), as a list of 0 or 1
RECURSIVE findByName(_, _)
findByName(s, name) ==
    IF s = <<>> THEN <<>>
    ELSE IF Head(s).name = name THEN <<Head(s)>> ELSE findByName(Tail(s), name)

\* `${template.name} (imported-${formatDate(new Date(), 'MMDDHHmm')})`
importedName(name, now) == [name EXCEPT !.sfx = Append(@, formatDate(now))]

\* an overwrite that prefers the name match
overwriteId_nameFirst(existingById, existingByName) ==
    IF existingByName # <<>> THEN existingByName[1].id ELSE existingById[1].id

\* existingById?.id || existingByName?.id
overwriteId(existingById, existingByName) ==
    IF existingById # <<>> THEN existingById[1].id ELSE existingByName[1].id

\* a skip strategy that is never taken
skips_never(conflict, strategy) == FALSE

\* case 'skip' of the conflict switch: resolve without saving
skips(conflict, strategy) == conflict /\ strategy = "skip"

\* lines 105-135: the template handed to saveTemplate
finalTemplate(template, existingById, existingByName, strategy, now, gid) ==
    IF existingById # <<>> \/ existingByName # <<>>
    THEN CASE strategy = "overwrite" ->
                  [template EXCEPT !.id = overwriteId(existingById, existingByName)]
           [] strategy = "rename" ->
                  [template EXCEPT !.id = gid,
                                   !.name = importedName(template.name, now),
                                   !.createdAt = NoTime]
           [] OTHER -> template
    ELSE [template EXCEPT !.id = gid, !.createdAt = NoTime]

\* the action reported by a pack import that saved
importAction(conflict, strategy) ==
    IF ~conflict THEN "created"
    ELSE IF strategy = "overwrite" THEN "overwritten"
    ELSE IF strategy = "rename" THEN "renamed"
    ELSE "created"

\* the store the adapter routes to, and its assignment
activeT == IF storageMode = "file" THEN fsT ELSE idbT
activeR == IF storageMode = "file" THEN fsR ELSE idbR

SetTemplates(T) ==
    IF storageMode = "file" THEN fsT' = T /\ idbT' = idbT ELSE idbT' = T /\ fsT' = fsT

SetRecords(R) ==
    IF storageMode = "file" THEN fsR' = R /\ idbR' = idbR ELSE idbR' = R /\ fsR' = fsR

\* StorageAdapter.saveTemplate / saveRecord on a store that can be written
putTemplate(T, t1, now) ==
    IF storageMode = "file" THEN saveTemplateToFile(T, t1)
    ELSE idbPut(T, Storage_saveData(t1, getTimestamp(now), t1.id))

putRecord(R, r1, now) ==
    IF storageMode = "file" THEN saveRecordToFile(R, r1)
    ELSE idbPut(R, Storage_saveData(r1, getTimestamp(now), r1.id))

\* the templates StorageAdapter.getAllTemplates() shows
visibleTemplates ==
    IF storageMode = "file" THEN (IF usable("granted") THEN fsT ELSE {}) ELSE idbT

\* importTemplatePack(file, {conflictStrategy})
ImportTemplatePack ==
    /\ phase = "ready"
    /\ \E pack \in TemplatePacks, strategy \in Strategies, ans \in AnswersNow :
        IF ~pack.json \/ ~typeMatches(pack, "template") \/ pack.body = <<>>
        THEN /\ last' = [Obs("importTemplatePack") EXCEPT
                           !.ok = FALSE, !.err = "invalid pack", !.ptype = pack.type]
             /\ UNCHANGED <<workspaceHandle, perm, idbT, fsT, clock, nextId>>
        ELSE \E existingTemplates \in getAllTemplates(ans) :
            LET template == pack.body[1]
                existingByName == findByName(existingTemplates, template.name)
                existingById == find(existingTemplates, template.id)
                conflict == existingById # <<>> \/ existingByName # <<>>
                now == clock + 1
                fresh == ~conflict \/ strategy = "rename"
                final == finalTemplate(template, existingById, existingByName,
                                       strategy, now, generateId(nextId + 1))
                saved == ensureIdAndTimestamps(final, getTimestamp(now), final.id)
                written == storageMode = "browser" \/ usable(ans)
            IN  /\ Routed(ans)
                /\ IF skips(conflict, strategy)
                   THEN /\ last' = [Obs("importTemplatePack") EXCEPT
                                      !.ptype = pack.type, !.strategy = strategy,
                                      !.version = pack.version,
                                      !.arg = <<template>>, !.touched = routed,
                                      !.action = "skipped"]
                        /\ UNCHANGED <<idbT, fsT, clock, nextId>>
                   ELSE /\ now <= MaxClock
                        /\ nextId' = IF fresh THEN nextId + 1 ELSE nextId
                        /\ clock' = now
                        /\ SetTemplates(IF written THEN putTemplate(activeT, saved, now)
                                        ELSE activeT)
                        /\ last' = [Obs("importTemplatePack") EXCEPT
                                      !.ptype = pack.type, !.strategy = strategy,
                                      !.version = pack.version,
                                      !.arg = <<template>>, !.touched = routed,
                                      !.ok = written,
                                      !.err = IF written THEN "" ELSE "save failed",
                                      !.action = IF written
                                                 THEN importAction(conflict, strategy)
                                                 ELSE "",
                                      !.res = IF written THEN <<saved>> ELSE <<>>,
                                      !.id = IF written THEN saved.id ELSE NoId]
    /\ UNCHANGED <<storageMode, supportsFS, cachedHandle, idbR, fsR, phase, tz, switched>>
    /\ UNCHANGED appVars

\* files handed to importRecordsPack: templateInfo as createRecordsPack writes
\* it, body is pack.records, <<>> when absent
NotJSONRecords ==
    [json |-> FALSE, type |-> "none",
     templateInfo |-> [id |-> NoId, name |-> Name("A")], body |-> <<>>]

RecordsPacks ==
    {NotJSONRecords} \cup
    {[json |-> TRUE, type |-> "records", templateInfo |-> [id |-> i, name |-> Name(n)],
      body |-> b] :
        i \in ExtIds, n \in Names,
        b \in {<<>>} \cup {<<rs>> : rs \in SeqsUpTo(PackRecords, MaxPackLen)}} \cup
    {[json |-> TRUE, type |-> ty, templateInfo |-> [id |-> i, name |-> Name("A")],
      body |-> <<<<r>>>>] :
        ty \in PackTypes \ {"records"}, i \in ExtIds, r \in PackRecords}

\* lines 245-261: the template ids the records can be attached to; none when
\* the handler throws (template not found by id nor by name, or
\* getTemplateById itself throws)
targetTemplateIds(info, ans) ==
    IF getTemplateById(info.id, ans) = {} THEN {}
    ELSE IF getTemplateById(info.id, ans) # {<<>>} THEN {info.id}
    ELSE {byName[1].id :
            byName \in {findByName(templates, info.name) :
                          templates \in getAllTemplates(ans)} \ {<<>>}}

\* a saved record that keeps the templateId it has in the pack
recordTemplateId_kept(record, target) == record.templateId

\* templateId: targetTemplateId of recordToSave
recordTemplateId(record, target) == target

\* lines 263-284: the loop over pack.records on a store that can be read and
\* written, from n generated ids and tick t
RECURSIVE importRecords(_, _, _, _, _)
importRecords(records, R, n, t, target) ==
    IF records = <<>>
    THEN [R |-> R, nextId |-> n, clock |-> t, imported |-> 0, skipped |-> 0]
    ELSE LET record == Head(records)
         IN  IF \E x \in R : x.id = record.id
             THEN LET rest == importRecords(Tail(records), R, n, t, target)
                  IN  [rest EXCEPT !.skipped = @ + 1]
             ELSE LET now == t + 1
                      recordToSave ==
                          [record EXCEPT !.templateId = recordTemplateId(record, target),
                                         !.id = generateId(n + 1)]
                      r1 == ensureIdAndTimestamps(recordToSave, getTimestamp(now),
                                                  recordToSave.id)
                      rest == importRecords(Tail(records), putRecord(R, r1, now),
                                            n + 1, now, target)
                  IN  [rest EXCEPT !.imported = @ + 1]

\* importRecordsPack(file)
ImportRecordsPack ==
    /\ phase = "ready"
    /\ \E pack \in RecordsPacks, ans \in AnswersNow :
        IF ~pack.json \/ ~typeMatches(pack, "records") \/ pack.body = <<>>
        THEN /\ last' = [Obs("importRecordsPack") EXCEPT
                           !.ok = FALSE, !.err = "invalid pack", !.ptype = pack.type]
             /\ UNCHANGED <<workspaceHandle, perm, idbR, fsR, clock, nextId>>
        ELSE /\ Routed(ans)
             /\ IF targetTemplateIds(pack.templateInfo, ans) = {}
                THEN /\ last' = [Obs("importRecordsPack") EXCEPT
                                   !.ok = FALSE, !.err = "template not found",
                                   !.ptype = pack.type, !.touched = routed,
                                   !.arg = <<pack.templateInfo, pack.body[1]>>]
                     /\ UNCHANGED <<idbR, fsR, clock, nextId>>
                ELSE \E target \in targetTemplateIds(pack.templateInfo, ans) :
                    LET out == importRecords(pack.body[1], activeR, nextId, clock,
                                             target)
                    IN  /\ out.clock <= MaxClock
                        /\ clock' = out.clock
                        /\ nextId' = out.nextId
                        /\ SetRecords(out.R)
                        /\ last' = [Obs("importRecordsPack") EXCEPT
                                      !.ptype = pack.type, !.touched = routed,
                                      !.arg = <<pack.templateInfo, pack.body[1]>>,
                                      !.id = target,
                                      !.res = <<out.imported, out.skipped,
                                                Len(pack.body[1])>>]
    /\ UNCHANGED <<storageMode, supportsFS, cachedHandle, idbT, fsT, phase, tz, switched>>
    /\ UNCHANGED appVars

\* files handed to importFullBackup
NotJSONBackup == [json |-> FALSE, type |-> "none", templates |-> <<>>, records |-> <<>>]

BackupFiles ==
    {NotJSONBackup} \cup
    {[json |-> TRUE, type |-> "full_backup", templates |-> ts, records |-> rs] :
        ts \in SeqsUpTo(PackTemplates, MaxPackLen),
        rs \in SeqsUpTo(PackRecords, MaxPackLen)} \cup
    {[json |-> TRUE, type |-> ty, templates |-> <<t>>, records |-> <<>>] :
        ty \in PackTypes \ {"full_backup"}, t \in PackTemplates}

\* lines 353-362: the loop over backup.templates; canUse says whether the
\* routed store can be read and written.  ok = FALSE when a call threw.
RECURSIVE importBackupTemplates(_, _, _, _)
importBackupTemplates(templates, T, t, canUse) ==
    IF templates = <<>> THEN [T |-> T, clock |-> t, imported |-> 0, ok |-> TRUE]
    ELSE LET template == Head(templates)
             existing == canUse /\ \E x \in T : x.id = template.id
         IN  IF existing THEN importBackupTemplates(Tail(templates), T, t, canUse)
             ELSE IF storageMode = "file"
             THEN [T |-> T, clock |-> t, imported |-> 0, ok |-> FALSE]
             ELSE LET now == t + 1
                      t1 == ensureIdAndTimestamps(template, getTimestamp(now),
                                                  template.id)
                      rest == importBackupTemplates(Tail(templates),
                                                    putTemplate(T, t1, now), now, canUse)
                  IN  [rest EXCEPT !.imported = @ + 1]

\* lines 365-373: the loop over backup.records
RECURSIVE importBackupRecords(_, _, _, _)
importBackupRecords(records, R, t, canUse) ==
    IF records = <<>> THEN [R |-> R, clock |-> t, imported |-> 0, ok |-> TRUE]
    ELSE LET record == Head(records)
             existing == canUse /\ \E x \in R : x.id = record.id
         IN  IF existing THEN importBackupRecords(Tail(records), R, t, canUse)
             ELSE IF ~canUse
             THEN [R |-> R, clock |-> t, imported |-> 0, ok |-> FALSE]
             ELSE LET now == t + 1
                      r1 == ensureIdAndTimestamps(record, getTimestamp(now), record.id)
                      rest == importBackupRecords(Tail(records),
                                                  putRecord(R, r1, now), now, canUse)
                  IN  [rest EXCEPT !.imported = @ + 1]

\* importFullBackup(file)
ImportFullBackup ==
    /\ phase = "ready"
    /\ \E backup \in BackupFiles, ans \in AnswersNow :
        IF ~backup.json \/ ~typeMatches(backup, "full_backup")
        THEN /\ last' = [Obs("importFullBackup") EXCEPT
                           !.ok = FALSE, !.err = "invalid pack", !.ptype = backup.type]
             /\ UNCHANGED <<workspaceHandle, perm, idbT, idbR, fsT, fsR, clock>>
        ELSE LET canUse == storageMode = "browser" \/ usable(ans)
                 ts == importBackupTemplates(backup.templates, activeT, clock, canUse)
                 rs == IF ts.ok
                       THEN importBackupRecords(backup.records, activeR, ts.clock, canUse)
                       ELSE [R |-> activeR, clock |-> ts.clock, imported |-> 0,
                             ok |-> FALSE]
             IN  /\ rs.clock <= MaxClock
                 /\ Routed(ans)
                 /\ clock' = rs.clock
                 /\ SetTemplates(ts.T)
                 /\ SetRecords(rs.R)
                 /\ last' = [Obs("importFullBackup") EXCEPT
                               !.ptype = backup.type, !.touched = routed,
                               !.arg = <<backup.templates, backup.records>>,
                               !.ok = rs.ok,
                               !.err = IF rs.ok THEN "" ELSE "import failed",
                               !.res = IF rs.ok THEN <<ts.imported, rs.imported>>
                                       ELSE <<>>]
    /\ UNCHANGED <<storageMode, supportsFS, cachedHandle, nextId, phase, tz, switched>>
    /\ UNCHANGED appVars

\* Storage.importTemplates: every template is saved
RECURSIVE Storage_importTemplates(_, _, _)
Storage_importTemplates(templates, T, t) ==
    IF templates = <<>> THEN [T |-> T, clock |-> t, results |-> <<>>]
    ELSE LET now == t + 1
             saved == Storage_saveData(Head(templates), getTimestamp(now),
                                       Head(templates).id)
             rest == Storage_importTemplates(Tail(templates), idbPut(T, saved), now)
         IN  [rest EXCEPT !.results = <<saved>> \o @]

\* Storage.importRecords: a record is saved unless one with its id is stored
RECURSIVE Storage_importRecords(_, _, _)
Storage_importRecords(records, R, t) ==
    IF records = <<>> THEN [R |-> R, clock |-> t, results |-> <<>>]
    ELSE LET record == Head(records)
         IN  IF Storage_getById(R, record.id) # <<>>
             THEN Storage_importRecords(Tail(records), R, t)
             ELSE LET now == t + 1
                      saved == Storage_saveData(record, getTimestamp(now), record.id)
                      rest == Storage_importRecords(Tail(records), idbPut(R, saved),
                                                    now)
                  IN  [rest EXCEPT !.results = <<saved>> \o @]

\* result.imported, where result is the list importTemplates / importRecords
\* returned: a list has no property 'imported'
resultImported(result) == Undefined

\* StorageAdapter.importBackupFile = Storage.importBackupFile; present says
\* whether the file has a templates and a records property
ImportBackupFile ==
    /\ phase = "ready"
    /\ \E backup \in BackupFiles, present \in BOOLEAN :
        IF ~backup.json \/ ~present
        THEN /\ last' = [Obs("importBackupFile") EXCEPT
                           !.ok = FALSE, !.err = "invalid pack", !.ptype = backup.type,
                           !.touched = {"idb"}]
             /\ UNCHANGED <<idbT, idbR, clock>>
        ELSE LET ts == Storage_importTemplates(backup.templates, idbT, clock)
                 rs == Storage_importRecords(backup.records, idbR, ts.clock)
                 importedTemplates == IF Len(backup.templates) > 0
                                      THEN resultImported(ts.results) ELSE 0
                 importedRecords == IF Len(backup.records) > 0
                                    THEN resultImported(rs.results) ELSE 0
             IN  /\ rs.clock <= MaxClock
                 /\ clock' = rs.clock
                 /\ idbT' = ts.T
                 /\ idbR' = rs.R
                 /\ last' = [Obs("importBackupFile") EXCEPT
                               !.ptype = backup.type, !.touched = {"idb"},
                               !.arg = <<backup.templates, backup.records>>,
                               !.res = <<importedTemplates, importedRecords>>]
    /\ UNCHANGED <<storageMode, workspaceHandle, supportsFS, cachedHandle, perm,
                   fsT, fsR, nextId, phase, tz, switched>>
    /\ UNCHANGED appVars

\* the templates a store that can be written holds from an earlier session:
\* none, or one that came with an id
PersistedTemplates == {{}, {Template(1, Name("A"), 1, 1)}}

\* the states StorageAdapter.init() leaves: browser storage, or file storage
\* with the workspace handle held and readwrite permission granted or not
InitImport ==
    /\ storageMode \in {"browser", "file"}
    /\ workspaceHandle = (storageMode = "file")
    /\ supportsFS = (storageMode = "file")
    /\ cachedHandle = (storageMode = "file")
    /\ perm \in IF storageMode = "file" THEN {"granted", "denied"} ELSE {"prompt"}
    /\ idbT \in IF storageMode = "browser" THEN PersistedTemplates ELSE {{}}
    /\ idbR = {}
    /\ fsT \in IF storageMode = "file" /\ perm = "granted" THEN PersistedTemplates
               ELSE {{}}
    /\ fsR = {}
    /\ clock = 1
    /\ nextId = 0
    /\ phase = "ready"
    /\ tz = 0
    /\ switched = FALSE
    /\ last = NoObs
    /\ NoSession

NextImport ==
    \/ SaveTemplate
    \/ ImportTemplatePack
    \/ ImportRecordsPack
    \/ ImportFullBackup

SpecImport == InitImport /\ [][NextImport]_vars

\* the two ways to restore a backup: Export.importFullBackup and the restore
\* button, which calls StorageAdapter.importBackupFile
NextBackup ==
    \/ ImportFullBackup
    \/ ImportBackupFile

SpecBackup == InitImport /\ [][NextBackup]_vars

-----------------------------------------------------------------------------
(* Claims about pack import, checked under SpecImport *)

ImportOps == {"importTemplatePack", "importRecordsPack", "importFullBackup"}

\* the pack type an importer expects
expectedType(op) ==
    CASE op = "importTemplatePack" -> "template"
      [] op = "importRecordsPack" -> "records"
      [] OTHER -> "full_backup"

\* no template and no record is written by the step
StoresUnchanged ==
    /\ idbT' = idbT
    /\ idbR' = idbR
    /\ fsT' = fsT
    /\ fsR' = fsR

\* C7: each of the three importers rejects a pack whose type is not the one
\* it expects, and a file that is not JSON, and then no template and no
\* record has been written.
C7_WrongTypeRejected ==
    [][(last'.op \in ImportOps /\ last'.ptype # expectedType(last'.op)) =>
           (~last'.ok /\ StoresUnchanged)]_vars

\* a records importer has rejected a template pack while a template is stored
C7_Witness ==
    /\ last.op = "importRecordsPack"
    /\ last.ptype = "template"
    /\ ~last.ok
    /\ activeT # {}

\* some template the adapter shows has the id or the name of pack template p
conflicts(p) == \E t \in visibleTemplates : t.id = p.id \/ t.name = p.name

\* the step is a successful importTemplatePack with the given strategy, of a
\* pack whose template has the id or the name of a stored template
ImportsWithConflict(strategy) ==
    /\ last'.op = "importTemplatePack"
    /\ last'.strategy = strategy
    /\ last'.ok
    /\ conflicts(last'.arg[1])

\* the id an overwrite has to persist under: that of the id match, else that
\* of a name match
overwritesUnderMatch(p) ==
    IF \E t \in visibleTemplates : t.id = p.id
    THEN last'.id = p.id
    ELSE \E t \in visibleTemplates : t.name = p.name /\ last'.id = t.id

C9_RenameDisambiguates ==
    [][ImportsWithConflict("rename") =>
           LET p == last'.arg[1]
               added == activeT' \ activeT
           IN  /\ activeT \subseteq activeT'
               /\ Cardinality(added) = 1
               /\ \A s \in added :
                      /\ s.id \notin {t.id : t \in activeT}
                      /\ s.createdAt = getTimestamp(clock')
                      /\ s.name.base = p.name.base
                      /\ s.name.sfx # <<>>
                      /\ s.name \notin {t.name : t \in activeT}]_vars

\* C10: a 'skip' import with a conflict writes nothing and resolves with
\* action 'skipped'.
C10_SkipWritesNothing ==
    [][(/\ last'.op = "importTemplatePack"
        /\ last'.strategy = "skip"
        /\ conflicts(last'.arg[1])) =>
           (StoresUnchanged /\ last'.ok /\ last'.action = "skipped")]_vars

\* a pack whose template is stored has been imported with 'skip'
C10_Witness ==
    /\ last.op = "importTemplatePack"
    /\ last.strategy = "skip"
    /\ last.action = "skipped"
    /\ conflicts(last.arg[1])

\* the step is an importRecordsPack of a well-formed records pack
ImportsRecords ==
    /\ last'.op = "importRecordsPack"
    /\ last'.ptype = "records"
    /\ last'.arg # <<>>

\* the stored templates with the id / the name of templateInfo
storedById(info) == {t \in activeT : t.id = info.id}
storedByName(info) == {t \in activeT : t.name = info.name}

\* C11: importRecordsPack, in either storage mode, resolves the target
\* template by templateInfo.id and, when no template with that id is stored,
\* by templateInfo.name; records of a pack resolved by name are stored under
\* the id of that template; when neither lookup finds a template the import
\* fails and no record is written.
C11_TargetByIdThenName ==
    [][ImportsRecords =>
           LET info == last'.arg[1]
               written == activeR' \ activeR
           IN  IF storedById(info) # {}
               THEN last'.ok /\ last'.id = info.id
               ELSE IF storedByName(info) # {}
               THEN /\ last'.ok
                    /\ last'.id \in {t.id : t \in storedByName(info)}
                    /\ \A r \in written : r.templateId = last'.id
               ELSE ~last'.ok /\ StoresUnchanged]_vars

\* the ids of the records stored in either store
storedRecordIds == {x.id : x \in idbR \cup fsR}

ReimportsRecords ==
    /\ last.op = "importRecordsPack"
    /\ last.ok
    /\ ImportsRecords
    /\ last'.ok
    /\ last'.arg = last.arg

\* C13: importing the same records pack a second time ends with the stored
\* records of one import: the second import stores nothing, so no record of
\* the pack is stored more than once.
C13_ReimportIdempotent ==
    [][ReimportsRecords => (activeR' = activeR /\ last'.res[1] = 0)]_vars

BackupOps == {"importFullBackup", "importBackupFile"}

\* the stores the last backup import worked on
backupT == IF last.op = "importBackupFile" THEN idbT ELSE activeT
backupR == IF last.op = "importBackupFile" THEN idbR ELSE activeR

\* the step is a backup import of a file whose format was accepted
ImportsBackup ==
    /\ last'.op \in BackupOps
    /\ last'.arg # <<>>

\* the step imports again the backup that the call before it imported
ReimportsBackup ==
    /\ last.op \in BackupOps
    /\ ImportsBackup
    /\ last'.op = last.op
    /\ last'.arg = last.arg

\* C14: importing the same full backup a second time, in either storage
\* mode, leaves the numbers of stored templates and records as the first
\* import left them, and the second import reports 0 templates and 0 records
\* imported.
C14_BackupReimport ==
    [][ReimportsBackup =>
           /\ last'.ok
           /\ last'.res = <<0, 0>>
           /\ Cardinality(backupT') = Cardinality(backupT)
           /\ Cardinality(backupR') = Cardinality(backupR)]_vars

\* the ids of the entities in a list of a backup
idsOf(list) == {list[i].id : i \in 1..Len(list)}

\* a backup import that took the stores from T, R to T2, R2: the stored
\* entities whose id occurs in the backup are as they were, and the reported
\* counts are the numbers of entities written
writesOnlyNew(T, T2, R, R2) ==
    /\ \A t \in T : t.id \in idsOf(last'.arg[1]) => t \in T2
    /\ \A r \in R : r.id \in idsOf(last'.arg[2]) => r \in R2
    /\ last'.res = <<Cardinality(T2 \ T), Cardinality(R2 \ R)>>

\* C15: a successful full-backup import, by Export.importFullBackup or by
\* StorageAdapter.importBackupFile, leaves every stored template and record
\* whose id occurs in the backup unchanged, and the template and record
\* counts of its result are the numbers of entities it wrote.
C15_BackupWritesOnlyNew ==
    [][(ImportsBackup /\ last'.ok) =>
           IF last'.op = "importBackupFile"
           THEN writesOnlyNew(idbT, idbT', idbR, idbR')
           ELSE writesOnlyNew(activeT, activeT', activeR, activeR')]_vars

-----------------------------------------------------------------------------
(* Template validation: js/template.js, validateTemplate.  A string is the    *)
(* list of its characters; the template under validation and the result are   *)
(* kept in last.arg and last.res.                                              *)

MaxFields == 3
MaxColumns == 2
MaxDetailTables == 3

Letters == {"a", "b", "c", "d", "L", "N"}
Digits == {"1"}
Space == " "

\* !s || !s.trim()
isBlank(s) == \A i \in 1..Len(s) : s[i] = Space

\* a shape test that accepts every string
isIdentifier_any(s) == TRUE

\* /^[a-zA-Z_][a-zA-Z0-9_]*$/.test(s)
isIdentifier(s) ==
    /\ Len(s) > 0
    /\ s[1] \in Letters \cup {"_"}
    /\ \A i \in 2..Len(s) : s[i] \in Letters \cup Digits \cup {"_"}

\* template.wordFile: null, a file object without data, a file object with
\* data: a document that the parser can or cannot read, and the {...} groups
\* of its text, each the list of the characters between the braces
WordFile(readable, text) ==
    [file |-> TRUE, data |-> TRUE, base64 |-> TRUE, readable |-> readable,
     text |-> text]
NoWordFile ==
    [file |-> FALSE, data |-> FALSE, base64 |-> FALSE, readable |-> FALSE,
     text |-> <<>>]
NoDataWordFile == [NoWordFile EXCEPT !.file = TRUE]
\* data whose payload atob cannot decode
UndecodableWordFile == [NoWordFile EXCEPT !.file = TRUE, !.data = TRUE]

Field(key, label) == [key |-> key, label |-> label]
Column(key, label) == [key |-> key, label |-> label]
DetailTable(name, columns) == [name |-> name, columns |-> columns]
TemplateForm(name, wordFile, fields, detailTables) ==
    [name |-> name, wordFile |-> wordFile, fields |-> fields,
     detailTables |-> detailTables]

\* a message pushed to errors: its kind and the index, name and key it quotes
Message(kind, n, name, key) == [kind |-> kind, n |-> n, name |-> name, key |-> key]

\* template.fields.forEach, from field 'index' on, with the keys seen so far
RECURSIVE validateFields(_, _, _)
validateFields(fields, index, fieldKeys) ==
    IF index > Len(fields) THEN <<>>
    ELSE LET field == fields[index]
             keyError ==
                 IF isBlank(field.key)
                 THEN <<Message("fieldKeyBlank", index, <<>>, <<>>)>>
                 ELSE IF ~isIdentifier(field.key)
                 THEN <<Message("fieldKeyFormat", 0, field.key, <<>>)>>
                 ELSE IF field.key \in fieldKeys
                 THEN <<Message("fieldKeyDuplicate", 0, field.key, <<>>)>>
                 ELSE <<>>
             seen == IF keyError = <<>> THEN fieldKeys \cup {field.key} ELSE fieldKeys
             labelError ==
                 IF isBlank(field.label)
                 THEN <<Message("fieldLabelBlank", index, <<>>, <<>>)>>
                 ELSE <<>>
         IN  keyError \o labelError \o validateFields(fields, index + 1, seen)

\* table.columns.forEach, from column 'colIndex' on
RECURSIVE validateColumns(_, _, _, _)
validateColumns(table, columns, colIndex, columnKeys) ==
    IF colIndex > Len(columns) THEN <<>>
    ELSE LET col == columns[colIndex]
             keyError ==
                 IF isBlank(col.key)
                 THEN <<Message("columnKeyBlank", colIndex, table.name, <<>>)>>
                 ELSE IF col.key \in columnKeys
                 THEN <<Message("columnKeyDuplicate", 0, table.name, col.key)>>
                 ELSE <<>>
             seen == IF keyError = <<>> THEN columnKeys \cup {col.key} ELSE columnKeys
             labelError ==
                 IF isBlank(col.label)
                 THEN <<Message("columnLabelBlank", colIndex, table.name, <<>>)>>
                 ELSE <<>>
         IN  keyError \o labelError \o validateColumns(table, columns, colIndex + 1, seen)

\* template.detailTables.forEach, from table 'tableIndex' on
RECURSIVE validateTables(_, _, _)
validateTables(detailTables, tableIndex, tableNames) ==
    IF tableIndex > Len(detailTables) THEN <<>>
    ELSE LET table == detailTables[tableIndex]
             nameError ==
                 IF isBlank(table.name)
                 THEN <<Message("tableNameBlank", tableIndex, <<>>, <<>>)>>
                 ELSE IF ~isIdentifier(table.name)
                 THEN <<Message("tableNameFormat", 0, table.name, <<>>)>>
                 ELSE IF table.name \in tableNames
                 THEN <<Message("tableNameDuplicate", 0, table.name, <<>>)>>
                 ELSE <<>>
             seen == IF nameError = <<>> THEN tableNames \cup {table.name}
                     ELSE tableNames
             columnErrors ==
                 IF table.columns = <<>>
                 THEN <<Message("tableNoColumns",
                                IF table.name # <<>> THEN 0 ELSE tableIndex,
                                table.name, <<>>)>>
                 ELSE validateColumns(table, table.columns, 1, {})
         IN  nameError \o columnErrors \o
             validateTables(detailTables, tableIndex + 1, seen)

\* validateTemplate(template): {valid, errors}
validateTemplate(template) ==
    LET nameError == IF isBlank(template.name)
                     THEN <<Message("templateNameBlank", 0, <<>>, <<>>)>> ELSE <<>>
        fileError == IF ~template.wordFile.file \/ ~template.wordFile.data
                     THEN <<Message("wordFileMissing", 0, <<>>, <<>>)>> ELSE <<>>
        hasFields == Len(template.fields) > 0
        hasDetailTables == Len(template.detailTables) > 0
        countError == IF Len(template.detailTables) > MaxDetailTables
                      THEN <<Message("tooManyTables", 0, <<>>, <<>>)>> ELSE <<>>
        noneError == IF ~hasFields /\ ~hasDetailTables
                     THEN <<Message("noFieldOrTable", 0, <<>>, <<>>)>> ELSE <<>>
        errors == nameError \o fileError \o
                  validateFields(template.fields, 1, {}) \o
                  countError \o validateTables(template.detailTables, 1, {}) \o
                  noneError
    IN  [valid |-> Len(errors) = 0, errors |-> errors]

\* the strings of the form: empty, blank, well-shaped and ill-shaped
KeyStrings == {<<>>, <<" ">>, <<"a">>, <<"b">>, <<"1", "a">>}
NameStrings == {<<>>, <<" ">>, <<"N">>}
TableNameStrings == {<<>>, <<"a">>, <<"b">>, <<"c">>, <<"d">>, <<"1", "a">>}

\* fields and columns: every key with a good label, and a blank label next to
\* a good and to an empty key
Fields ==
    {Field(k, <<"L">>) : k \in KeyStrings} \cup
    {Field(k, <<>>) : k \in {<<>>, <<"a">>}}
Columns ==
    {Column(k, <<"L">>) : k \in KeyStrings \ {<<" ">>}} \cup
    {Column(k, <<>>) : k \in {<<>>, <<"a">>}}

OkField == Field(<<"a">>, <<"L">>)
OkColumn == Column(<<"a">>, <<"L">>)
OkTable == DetailTable(<<"a">>, <<OkColumn>>)
OkWordFile == WordFile(TRUE, <<<<"a">>>>)

\* lists of detail tables: at most one table of any content, and up to one
\* more than the limit of tables that have one good column
DetailTableLists ==
    {<<>>} \cup
    {<<DetailTable(n, cs)>> : n \in TableNameStrings,
                              cs \in SeqsUpTo(Columns, MaxColumns)} \cup
    {[i \in 1..Len(ns) |-> DetailTable(ns[i], <<OkColumn>>)] :
        ns \in UNION {[1..j -> TableNameStrings] : j \in 2..(MaxDetailTables + 1)}}

\* the templates the edit form hands to validateTemplate
FormTemplates ==
    {TemplateForm(n, w, fs, ts) :
        n \in NameStrings, w \in {NoWordFile, NoDataWordFile, OkWordFile},
        fs \in SeqsUpTo(Fields, 1),
        ts \in {<<>>, <<OkTable>>, <<DetailTable(<<"a">>, <<>>)>>}} \cup
    {TemplateForm(nw[1], nw[2], fs, ts) :
        nw \in {<<<<"N">>, OkWordFile>>, <<<<>>, NoWordFile>>},
        fs \in SeqsUpTo(Fields, MaxFields),
        ts \in {<<>>, <<OkTable>>}} \cup
    {TemplateForm(nw[1], nw[2], fs, ts) :
        nw \in {<<<<"N">>, OkWordFile>>, <<<<>>, NoWordFile>>},
        fs \in {<<>>, <<OkField>>},
        ts \in DetailTableLists}

\* the stores play no part in validation
IdleStores ==
    /\ storageMode = "browser"
    /\ workspaceHandle = FALSE
    /\ supportsFS = FALSE
    /\ cachedHandle = FALSE
    /\ perm = "prompt"
    /\ idbT = {}
    /\ idbR = {}
    /\ fsT = {}
    /\ fsR = {}
    /\ clock = 1
    /\ nextId = 0
    /\ phase = "ready"
    /\ tz = 0
    /\ switched = FALSE
    /\ NoSession

InitValidate ==
    /\ IdleStores
    /\ \E template \in FormTemplates :
        last = [NoObs EXCEPT !.op = "editTemplate", !.mode = "browser",
                             !.arg = <<template>>]

\* the save button of the template editor: Template.validateTemplate(template)
ValidateTemplate ==
    /\ last.op = "editTemplate"
    /\ LET validation == validateTemplate(last.arg[1])
       IN  last' = [last EXCEPT !.op = "validateTemplate",
                                !.ok = validation.valid,
                                !.res = validation.errors]
    /\ UNCHANGED <<storageMode, workspaceHandle, supportsFS, cachedHandle, perm,
                   idbT, idbR, fsT, fsR, clock, nextId, phase, tz, switched>>
    /\ UNCHANGED appVars

NextValidate == ValidateTemplate

SpecValidate == InitValidate /\ [][NextValidate]_vars

-----------------------------------------------------------------------------
(* Claims about template validation, checked under SpecValidate *)

\* the rules of the template schema, stated on their own
nonBlank(s) == \E i \in 1..Len(s) : s[i] # Space

identifierShaped(s) ==
    /\ s # <<>>
    /\ s[1] \notin Digits
    /\ \A i \in 1..Len(s) : s[i] \in Letters \cup Digits \cup {"_"}

\* the element at i of a list has a key (a name) no other element has
distinctKey(list, i) == \A j \in 1..Len(list) : j # i => list[j].key # list[i].key
distinctName(list, i) == \A j \in 1..Len(list) : j # i => list[j].name # list[i].name

fieldRules(fields) ==
    \A i \in 1..Len(fields) :
        /\ nonBlank(fields[i].key)
        /\ identifierShaped(fields[i].key)
        /\ distinctKey(fields, i)
        /\ nonBlank(fields[i].label)

columnRules(columns) ==
    /\ Len(columns) >= 1
    /\ \A c \in 1..Len(columns) :
           /\ nonBlank(columns[c].key)
           /\ distinctKey(columns, c)
           /\ nonBlank(columns[c].label)

tableRules(detailTables) ==
    /\ Len(detailTables) <= 3
    /\ \A t \in 1..Len(detailTables) :
           /\ nonBlank(detailTables[t].name)
           /\ identifierShaped(detailTables[t].name)
           /\ distinctName(detailTables, t)
           /\ columnRules(detailTables[t].columns)

satisfiesSchema(template) ==
    /\ nonBlank(template.name)
    /\ template.wordFile.file /\ template.wordFile.data
    /\ fieldRules(template.fields)
    /\ tableRules(template.detailTables)
    /\ Len(template.fields) + Len(template.detailTables) >= 1

\* C16: validateTemplate(T) returns valid = true with an empty errors list
\* exactly when T satisfies all rules of the schema, otherwise valid = false
\* with at least one message; valid is always equal to (errors is empty).
C16_ValidIffSchema ==
    last.op = "validateTemplate" =>
        /\ last.ok <=> satisfiesSchema(last.arg[1])
        /\ last.ok <=> last.res = <<>>

\* a template with two fields and a detail table has been found valid
C16_Witness ==
    /\ last.op = "validateTemplate"
    /\ last.ok
    /\ Len(last.arg[1].fields) >= 2
    /\ Len(last.arg[1].detailTables) >= 1

\* the element at i of a list repeats the key (the name) of an earlier one
repeatsKey(list, i) == \E j \in 1..(i - 1) : list[j].key = list[i].key
repeatsName(list, i) == \E j \in 1..(i - 1) : list[j].name = list[i].name

\* the message of a rule, when the rule is broken
when(broken, message) == IF broken THEN {message} ELSE {}

\* the messages of the rules that field i breaks
fieldViolations(fields, i) ==
    LET key == fields[i].key
    IN  when(~nonBlank(key), Message("fieldKeyBlank", i, <<>>, <<>>)) \cup
        when(nonBlank(key) /\ ~identifierShaped(key),
             Message("fieldKeyFormat", 0, key, <<>>)) \cup
        when(nonBlank(key) /\ repeatsKey(fields, i),
             Message("fieldKeyDuplicate", 0, key, <<>>)) \cup
        when(~nonBlank(fields[i].label), Message("fieldLabelBlank", i, <<>>, <<>>))

\* the messages of the rules that column c of a table breaks
columnViolations(table, c) ==
    LET key == table.columns[c].key
    IN  when(~nonBlank(key), Message("columnKeyBlank", c, table.name, <<>>)) \cup
        when(nonBlank(key) /\ repeatsKey(table.columns, c),
             Message("columnKeyDuplicate", 0, table.name, key)) \cup
        when(~nonBlank(table.columns[c].label),
             Message("columnLabelBlank", c, table.name, <<>>))

\* the messages of the rules that table t and its columns break
tableViolations(detailTables, t) ==
    LET table == detailTables[t]
    IN  when(~nonBlank(table.name), Message("tableNameBlank", t, <<>>, <<>>)) \cup
        when(nonBlank(table.name) /\ ~identifierShaped(table.name),
             Message("tableNameFormat", 0, table.name, <<>>)) \cup
        when(nonBlank(table.name) /\ repeatsName(detailTables, t),
             Message("tableNameDuplicate", 0, table.name, <<>>)) \cup
        when(Len(table.columns) = 0,
             Message("tableNoColumns", IF table.name # <<>> THEN 0 ELSE t,
                     table.name, <<>>)) \cup
        UNION {columnViolations(table, c) : c \in 1..Len(table.columns)}

\* the messages of all rules that a template breaks
violations(template) ==
    when(~nonBlank(template.name), Message("templateNameBlank", 0, <<>>, <<>>)) \cup
    when(~(template.wordFile.file /\ template.wordFile.data),
         Message("wordFileMissing", 0, <<>>, <<>>)) \cup
    UNION {fieldViolations(template.fields, i) : i \in 1..Len(template.fields)} \cup
    when(Len(template.detailTables) > 3, Message("tooManyTables", 0, <<>>, <<>>)) \cup
    UNION {tableViolations(template.detailTables, t) :
             t \in 1..Len(template.detailTables)} \cup
    when(Len(template.fields) + Len(template.detailTables) = 0,
         Message("noFieldOrTable", 0, <<>>, <<>>))

\* the messages in a list of errors
messagesOf(errors) == {errors[i] : i \in 1..Len(errors)}

\* C17: validateTemplate collects every violation: each rule that a field, a
\* table or a column breaks contributes its message to errors, also when the
\* same element or an earlier one breaks another rule (a field key that is
\* wrongly shaped and repeats an earlier key gets both messages).
C17_AllViolationsCollected ==
    last.op = "validateTemplate" =>
        violations(last.arg[1]) \subseteq messagesOf(last.res)

\* the number of fields that have the key, and of duplicate-key messages
\* that quote it
occurrences(fields, key) == Cardinality({i \in 1..Len(fields) : fields[i].key = key})
duplicateMessages(errors, key) ==
    Cardinality({i \in 1..Len(errors) :
                   errors[i] = Message("fieldKeyDuplicate", 0, key, <<>>)})

\* C18: for a template in which a field key occurs k >= 2 times,
\* validateTemplate reports exactly k - 1 duplicate-key messages for that
\* key, one per occurrence after the first.
C18_OneDuplicatePerExtra ==
    last.op = "validateTemplate" =>
        \A key \in {f.key : f \in messagesOf(last.arg[1].fields)} :
            (nonBlank(key) /\ occurrences(last.arg[1].fields, key) >= 2) =>
                duplicateMessages(last.res, key) =
                    occurrences(last.arg[1].fields, key) - 1

-----------------------------------------------------------------------------
(* The consistency check: js/template.js, extractPlaceholdersFromWord and     *)
(* checkTemplateConsistency                                                    *)

MaxTags == 2

\* String.prototype.trim, at the start and at the end
RECURSIVE trimStart(_)
trimStart(s) == IF s # <<>> /\ Head(s) = Space THEN trimStart(Tail(s)) ELSE s

RECURSIVE trimEnd(_)
trimEnd(s) ==
    IF s # <<>> /\ s[Len(s)] = Space THEN trimEnd(SubSeq(s, 1, Len(s) - 1)) ELSE s

\* a trim that leaves the blanks
trim_none(s) == s

\* match[1].trim()
trim(s) == trimEnd(trimStart(s))

\* Set.prototype.add on a set kept in insertion order
setAdd(list, x) == IF \E i \in 1..Len(list) : list[i] = x THEN list ELSE Append(list, x)

RECURSIVE setAddAll(_, _)
setAddAll(list, xs) == IF xs = <<>> THEN list ELSE setAddAll(setAdd(list, Head(xs)), Tail(xs))

setHas(list, x) == \E i \in 1..Len(list) : list[i] = x

\* the while loop over the matches of /\{([^{}]+)\}/g
RECURSIVE collectPlaceholders(_, _)
collectPlaceholders(text, placeholders) ==
    IF text = <<>> THEN placeholders
    ELSE LET tag == trim(Head(text))
         IN  collectPlaceholders(Tail(text),
                 IF tag # <<>> /\ tag[1] \in {"#", "/"} THEN placeholders
                 ELSE setAdd(placeholders, tag))

\* extractPlaceholdersFromWord(fileData): when the parser throws, the catch
\* logs the error and the placeholders collected so far, none, are returned
extractPlaceholdersFromWord(wordFile) ==
    IF wordFile.readable THEN collectPlaceholders(wordFile.text, <<>>) ELSE <<>>

\* the keys of a list of fields or columns, in order
RECURSIVE keysOf(_)
keysOf(list) == IF list = <<>> THEN <<>> ELSE <<Head(list).key>> \o keysOf(Tail(list))

\* lines 235-245: field keys, then the column keys of every detail table
RECURSIVE addColumnKeys(_, _)
addColumnKeys(configKeys, detailTables) ==
    IF detailTables = <<>> THEN configKeys
    ELSE addColumnKeys(setAddAll(configKeys, keysOf(Head(detailTables).columns)),
                       Tail(detailTables))

configuredKeys(template) ==
    addColumnKeys(setAddAll(<<>>, keysOf(template.fields)), template.detailTables)

\* the elements of a list that are (keep) or are not (~keep) in a set
RECURSIVE select(_, _, _)
select(list, set, keep) ==
    IF list = <<>> THEN <<>>
    ELSE (IF setHas(set, Head(list)) = keep THEN <<Head(list)>> ELSE <<>>) \o
         select(Tail(list), set, keep)

\* checkTemplateConsistency(template)
checkTemplateConsistency(template) ==
    IF ~template.wordFile.file \/ ~template.wordFile.data
    THEN [matched |-> <<>>, missingInWord |-> <<>>, missingInConfig |-> <<>>,
          valid |-> FALSE, error |-> "no word file"]
    ELSE IF ~template.wordFile.base64
    THEN [matched |-> <<>>, missingInWord |-> <<>>, missingInConfig |-> <<>>,
          valid |-> FALSE, error |-> "self check failed"]
    ELSE LET wordPlaceholders == extractPlaceholdersFromWord(template.wordFile)
             configKeys == configuredKeys(template)
             missingInWord == select(configKeys, wordPlaceholders, FALSE)
             missingInConfig == select(wordPlaceholders, configKeys, FALSE)
         IN  [matched |-> select(configKeys, wordPlaceholders, TRUE),
              missingInWord |-> missingInWord,
              missingInConfig |-> missingInConfig,
              valid |-> Len(missingInWord) = 0 /\ Len(missingInConfig) = 0,
              error |-> ""]

\* the {...} groups of a document: placeholders, one with blanks around it,
\* and the markers of a loop
RawTags == {<<"a">>, <<"b">>, <<"c">>, <<" ", "b", " ">>, <<"#", "d">>, <<"/", "d">>}

\* documents the parser reads, and two it does not: a corrupt archive and a
\* document with a marker that is not closed
Documents ==
    {WordFile(TRUE, text) : text \in SeqsUpTo(RawTags, MaxTags)} \cup
    {WordFile(FALSE, text) : text \in {<<>>, <<<<"#", "d">>, <<"a">>>>}}

\* the templates the self-check button hands to checkTemplateConsistency
CheckedTemplates ==
    {TemplateForm(<<"N">>, w, fs, ts) :
        w \in Documents \cup {NoWordFile, NoDataWordFile, UndecodableWordFile},
        fs \in SeqsUpTo({Field(k, <<"L">>) : k \in {<<"a">>, <<"b">>}}, MaxFields),
        ts \in {<<>>, <<DetailTable(<<"d">>, <<Column(<<"c">>, <<"L">>)>>)>>}}

InitConsistency ==
    /\ IdleStores
    /\ \E template \in CheckedTemplates :
        last = [NoObs EXCEPT !.op = "editTemplate", !.mode = "browser",
                             !.arg = <<template>>]

\* the self-check button: Template.checkTemplateConsistency(template)
CheckTemplateConsistency ==
    /\ last.op = "editTemplate"
    /\ LET result == checkTemplateConsistency(last.arg[1])
       IN  last' = [last EXCEPT !.op = "checkTemplateConsistency",
                                !.ok = result.valid,
                                !.err = result.error,
                                !.res = <<result.matched, result.missingInWord,
                                          result.missingInConfig>>]
    /\ UNCHANGED <<storageMode, workspaceHandle, supportsFS, cachedHandle, perm,
                   idbT, idbR, fsT, fsR, clock, nextId, phase, tz, switched>>
    /\ UNCHANGED appVars

NextConsistency == CheckTemplateConsistency

SpecConsistency == InitConsistency /\ [][NextConsistency]_vars

-----------------------------------------------------------------------------
(* Claims about the consistency check, checked under SpecConsistency *)

\* the elements of a list
elements(list) == {list[i] : i \in 1..Len(list)}

\* K: all field keys together with all column keys of all detail tables
K(template) ==
    {f.key : f \in elements(template.fields)} \cup
    UNION {{c.key : c \in elements(t.columns)} : t \in elements(template.detailTables)}

\* a {...} group without its blanks
notSpace(c) == c # Space
withoutBlanks(tag) == SelectSeq(tag, notSpace)

\* P: the placeholders of a document, the loop markers set aside
P(wordFile) ==
    {withoutBlanks(tag) : tag \in
        {g \in elements(wordFile.text) :
            withoutBlanks(g) = <<>> \/ withoutBlanks(g)[1] \notin {"#", "/"}}}

\* the last call checked a template whose document was read
CheckedReadable ==
    /\ last.op = "checkTemplateConsistency"
    /\ last.arg[1].wordFile.data
    /\ last.arg[1].wordFile.base64
    /\ last.arg[1].wordFile.readable

\* C19: for a template with a readable document, matched = K \cap P,
\* missingInWord = K \ P, missingInConfig = P \ K and valid = (K = P);
\* matched and missingInWord are disjoint and together equal K; with
\* K = {a, b} and P = {b, c} the result is matched = [b], missingInWord = [a],
\* missingInConfig = [c], valid = false.
C19_ConsistencySets ==
    CheckedReadable =>
        LET keys == K(last.arg[1])
            tags == P(last.arg[1].wordFile)
            matched == last.res[1]
            missingInWord == last.res[2]
            missingInConfig == last.res[3]
        IN  /\ elements(matched) = keys \cap tags
            /\ elements(missingInWord) = keys \ tags
            /\ elements(missingInConfig) = tags \ keys
            /\ last.ok <=> keys = tags
            /\ last.err = ""
            /\ elements(matched) \cap elements(missingInWord) = {}
            /\ elements(matched) \cup elements(missingInWord) = keys
            /\ (keys = {<<"a">>, <<"b">>} /\ tags = {<<"b">>, <<"c">>}) =>
                   /\ last.res = << <<<<"b">>>>, <<<<"a">>>>, <<<<"c">>>> >>
                   /\ ~last.ok

\* the keys {a, b} have been checked against a document with {b, c}
C19_Witness ==
    /\ CheckedReadable
    /\ K(last.arg[1]) = {<<"a">>, <<"b">>}
    /\ P(last.arg[1].wordFile) = {<<"b">>, <<"c">>}

\* the last call checked a template whose document cannot be parsed
CheckedUnreadable ==
    /\ last.op = "checkTemplateConsistency"
    /\ last.arg[1].wordFile.data
    /\ ~(last.arg[1].wordFile.base64 /\ last.arg[1].wordFile.readable)

\* C20: when the document of a template cannot be parsed, the check reports
\* an error and valid = false, never the result of a readable document whose
\* placeholders do not match (no error, missingInWord filled).
C20_UnreadableReported ==
    CheckedUnreadable => (last.err # "" /\ ~last.ok /\ last.res[2] = <<>>)

-----------------------------------------------------------------------------
(* Document data preparation: js/word.js, prepareDataForWord.  An object is   *)
(* a function from the keys it may have to a value; "undefined" is the value  *)
(* of a key the object does not have.                                          *)

MaxRows == 2

FieldKeys == {"a", "b"}
ColumnKeys == {"c", "d"}
TableNames == {"t", "u"}

\* null, as the whole tableData argument
NullTableData == [t \in TableNames |-> [isArray |-> FALSE, rows |-> <<>>]]

\* a property of tableData / of the prepared object that holds a list of rows
RowList(rows) == [isArray |-> TRUE, rows |-> rows]
NoRowList == [isArray |-> FALSE, rows |-> <<>>]

\* a value that the empty string replaces in a row
isEmptyValue(value) == value \in {"undefined", "null", ""}

\* lines 42-51: the row built from the configured columns
processedRow(row, columns) ==
    [k \in ColumnKeys |->
        IF \E i \in 1..Len(columns) : columns[i].key = k
        THEN (IF isEmptyValue(row[k]) THEN "" ELSE row[k])
        ELSE "undefined"]

\* rows.map(...)
mapRows(rows, columns) == [i \in 1..Len(rows) |-> processedRow(rows[i], columns)]

\* prepareDataForWord(fieldData, tableData, template); hasTableData is the
\* truth value of tableData
prepareDataForWord(fieldData, tableData, hasTableData, template) ==
    LET configured(name) ==
            {i \in 1..Len(template.detailTables) : template.detailTables[i].name = name}
        tableConfig(name) ==
            template.detailTables[CHOOSE i \in configured(name) :
                                     \A j \in configured(name) : j <= i]
        tables ==
            [name \in TableNames |->
                IF hasTableData /\ configured(name) # {}
                THEN RowList(mapRows(IF tableData[name].isArray
                                     THEN tableData[name].rows ELSE <<>>,
                                     tableConfig(name).columns))
                ELSE NoRowList]
        fields ==
            [k \in FieldKeys |->
                IF (\E i \in 1..Len(template.fields) : template.fields[i].key = k)
                   /\ fieldData[k] \in {"undefined", "null"}
                THEN "" ELSE fieldData[k]]
    IN  [fields |-> fields, tables |-> tables]

\* the values of a form input and of a record read back from a store
FieldDatas == {[a |-> x, b |-> y] : x \in {"undefined", "null", "", "v"},
                                    y \in {"undefined", "v"}}
Rows == {[c |-> x, d |-> y] : x \in {"undefined", "null", "v"}, y \in {"undefined", "w"}}

\* tableData: lists of rows for table t, with or without an empty list for u
TableDatas ==
    {[t |-> x, u |-> y] :
        x \in {NoRowList} \cup {RowList(rows) : rows \in SeqsUpTo(Rows, MaxRows)},
        y \in {NoRowList, RowList(<<>>)}}

FillTemplates ==
    {TemplateForm(<<"N">>, OkWordFile, fs, ts) :
        fs \in {<<>>, <<Field("a", <<"L">>), Field("b", <<"L">>)>>},
        ts \in {<<>>,
                <<DetailTable("t", <<Column("c", <<"L">>), Column("d", <<"L">>)>>)>>,
                <<DetailTable("t", <<Column("c", <<"L">>), Column("d", <<"L">>)>>),
                  DetailTable("u", <<Column("c", <<"L">>)>>)>>}}

InitPrepare ==
    /\ IdleStores
    /\ \E template \in FillTemplates, fieldData \in FieldDatas :
        \/ \E tableData \in TableDatas :
              last = [NoObs EXCEPT !.op = "fillForm", !.mode = "browser",
                                   !.arg = <<template, fieldData, tableData, TRUE>>]
        \/ last = [NoObs EXCEPT !.op = "fillForm", !.mode = "browser",
                                !.arg = <<template, fieldData, NullTableData, FALSE>>]

\* generateWord / getPreviewData: prepareDataForWord(fieldData, tableData, template)
PrepareDataForWord ==
    /\ last.op = "fillForm"
    /\ last' = [last EXCEPT
                  !.op = "prepareDataForWord",
                  !.res = <<prepareDataForWord(last.arg[2], last.arg[3], last.arg[4],
                                               last.arg[1])>>]
    /\ UNCHANGED <<storageMode, workspaceHandle, supportsFS, cachedHandle, perm,
                   idbT, idbR, fsT, fsR, clock, nextId, phase, tz, switched>>
    /\ UNCHANGED appVars

NextPrepare == PrepareDataForWord

SpecPrepare == InitPrepare /\ [][NextPrepare]_vars

\* C21: prepareDataForWord fills gaps with the empty string: in the object it
\* returns every configured field key is present, with its value or "" when
\* absent or null, and every detail-table name maps to an array with one row
\* per input row (none when the table data is null or lacks the table), each
\* row holding every configured column key, "" when absent or null.
C21_PreparedComplete ==
    last.op = "prepareDataForWord" =>
        LET template == last.arg[1]
            fieldData == last.arg[2]
            tableData == last.arg[3]
            data == last.res[1]
        IN  /\ \A i \in 1..Len(template.fields) :
                   LET k == template.fields[i].key
                   IN  data.fields[k] = IF fieldData[k] \in {"undefined", "null"}
                                        THEN "" ELSE fieldData[k]
            /\ \A i \in 1..Len(template.detailTables) :
                   LET table == template.detailTables[i]
                       out == data.tables[table.name]
                       rows == tableData[table.name].rows
                   IN  /\ out.isArray
                       /\ Len(out.rows) = Len(rows)
                       /\ \A r \in 1..Len(rows) : \A c \in 1..Len(table.columns) :
                              LET k == table.columns[c].key
                              IN  out.rows[r][k] =
                                      IF rows[r][k] \in {"undefined", "null"}
                                      THEN "" ELSE rows[r][k]

-----------------------------------------------------------------------------
(* The adapter before a workspace exists: js/storage-adapter.js line 7.       *)
(* storageMode is declared 'file'; a caller that uses the adapter without     *)
(* waiting for initStorage finds it in that mode with no handle held and,     *)
(* on a first visit, none cached.                                              *)

InitUnconfigured ==
    /\ storageMode = "file"
    /\ workspaceHandle = FALSE
    /\ supportsFS \in BOOLEAN
    /\ cachedHandle = FALSE
    /\ perm = "prompt"
    /\ idbT = {}
    /\ idbR = {}
    /\ fsT = {}
    /\ fsR = {}
    /\ clock = 1
    /\ nextId = 0
    /\ phase = "ready"
    /\ tz = 0
    /\ switched = FALSE
    /\ last = NoObs
    /\ NoSession

NextUnconfigured ==
    \/ SaveTemplate
    \/ GetAllTemplates
    \/ GetTemplateById
    \/ DeleteTemplate
    \/ SaveRecord
    \/ GetAllRecords
    \/ GetRecordsByTemplateId
    \/ GetRecordById
    \/ DeleteRecord
    \/ DeleteRecordsByTemplateId

SpecUnconfigured == InitUnconfigured /\ [][NextUnconfigured]_vars

AdapterOps ==
    {"saveTemplate", "getAllTemplates", "getTemplateById", "deleteTemplate",
     "saveRecord", "getAllRecords", "getRecordsByTemplateId", "getRecordById",
     "deleteRecord", "deleteRecordsByTemplateId"}

\* C22: while the file store is the active backend and no workspace has been
\* granted (none held, none cached), every template and record operation of
\* the adapter, reads included, fails; none reports success or an empty
\* result.
C22_NoWorkspaceFails ==
    (storageMode = "file" /\ ~workspaceHandle /\ ~cachedHandle
        /\ last.op \in AdapterOps)
    => ~last.ok

-----------------------------------------------------------------------------
(* The app's asynchronous actions, step by step: unnamed/part_000 and         *)
(* js/template.js.  A handler runs to its next await in one step; what it     *)
(* holds across the await is an entry of calls.                               *)

MaxCalls == 2

\* a template of an earlier session, with its document and its configuration
ConfiguredTemplate ==
    [id |-> 1, name |-> Name("A"), createdAt |-> 1, updatedAt |-> 1,
     wordFile |-> "docx",
     fields |-> <<[id |-> 11, key |-> "a"]>>,
     detailTables |-> <<[id |-> 12, name |-> "t",
                         columns |-> <<[id |-> 13, key |-> "c"]>>]>>]

\* the directory operations of the file store succeed
fileUsable == workspaceHandle /\ perm = "granted"

remove(s, i) == SubSeq(s, 1, i - 1) \o SubSeq(s, i + 1, Len(s))

\* the states StorageAdapter.init() leaves, with the stores of an earlier
\* session
InitApp ==
    /\ storageMode \in {"browser", "file"}
    /\ workspaceHandle = (storageMode = "file")
    /\ supportsFS = (storageMode = "file")
    /\ cachedHandle = (storageMode = "file")
    /\ perm \in IF storageMode = "file" THEN {"granted", "denied"} ELSE {"prompt"}
    /\ idbT \in IF storageMode = "browser" THEN {{}, {ConfiguredTemplate}} ELSE {{}}
    /\ idbR = {}
    /\ fsT \in IF storageMode = "file" /\ perm = "granted"
               THEN {{}, {ConfiguredTemplate}} ELSE {{}}
    /\ fsR = {}
    /\ clock = 1
    /\ nextId = 0
    /\ phase = "ready"
    /\ tz = 0
    /\ switched = FALSE
    /\ last = NoObs
    /\ NoSession

\* startFillForm(templateId): the template is read, the form starts empty
StartFillForm ==
    /\ phase = "ready"
    /\ \E id \in ListedTemplateIds :
        /\ AppState' = [currentTemplate |-> id, currentRecord |-> <<>>]
        /\ last' = [Obs("startFillForm") EXCEPT !.id = id, !.touched = routed]
    /\ UNCHANGED <<storageMode, workspaceHandle, supportsFS, cachedHandle, perm,
                   idbT, idbR, fsT, fsR, clock, nextId, phase, tz, switched,
                   calls, db, opened>>

\* the records the history list shows with their template: those whose
\* template the adapter can read
ListedRecords ==
    IF storageMode = "file" /\ ~fileUsable THEN {}
    ELSE {r \in activeR : r.templateId \in ListedTemplateIds}

\* createHistoryItem, 'open': startFillForm(template.id, record)
OpenRecord ==
    /\ phase = "ready"
    /\ \E record \in ListedRecords :
        /\ AppState' = [currentTemplate |-> record.templateId,
                        currentRecord |-> <<record>>]
        /\ last' = [Obs("openRecord") EXCEPT
                      !.id = record.id, !.arg = <<record>>, !.touched = routed]
    /\ UNCHANGED <<storageMode, workspaceHandle, supportsFS, cachedHandle, perm,
                   idbT, idbR, fsT, fsR, clock, nextId, phase, tz, switched,
                   calls, db, opened>>

\* createHistoryItem, 'copy': {...record, id: null, createdAt: null, updatedAt: null}
newRecord(record) ==
    [record EXCEPT !.id = NoId, !.createdAt = NoTime, !.updatedAt = NoTime]

\* createHistoryItem, 'copy': startFillForm(template.id, newRecord)
CopyRecord ==
    /\ phase = "ready"
    /\ \E record \in ListedRecords :
        /\ AppState' = [currentTemplate |-> record.templateId,
                        currentRecord |-> <<newRecord(record)>>]
        /\ last' = [Obs("copyRecord") EXCEPT
                      !.id = record.id, !.arg = <<record>>, !.touched = routed]
    /\ UNCHANGED <<storageMode, workspaceHandle, supportsFS, cachedHandle, perm,
                   idbT, idbR, fsT, fsR, clock, nextId, phase, tz, switched,
                   calls, db, opened>>

\* saveRecord / saveRecordWithFileName, lines 671-677 and 706-712: the record
\* handed to the adapter
formRecord ==
    Record(IF AppState.currentRecord = <<>> THEN NoId ELSE AppState.currentRecord[1].id,
           AppState.currentTemplate, NoTime, NoTime)

\* the Save button (saveRecord) or the save that follows a generated document
\* (generateWordDoc -> saveRecordWithFileName), up to the await of
\* StorageAdapter.saveRecord: the adapter has set id and timestamps
SaveRecordCall ==
    /\ phase = "ready"
    /\ AppState.currentTemplate # NoId
    /\ Len(calls) < MaxCalls
    /\ \E via \in {"saveRecord", "generateWordDoc"} :
        LET now == clock + 1
            r1 == ensureIdAndTimestamps(formRecord, getTimestamp(now),
                                        generateId(nextId + 1))
        IN  /\ now <= MaxClock
            /\ clock' = now
            /\ nextId' = IF formRecord.id = NoId THEN nextId + 1 ELSE nextId
            /\ calls' = Append(calls, [op |-> "saveRecord", via |-> via, record |-> r1])
            /\ last' = [Obs(via) EXCEPT
                          !.arg = <<formRecord>>, !.id = r1.id, !.touched = {}]
    /\ UNCHANGED <<storageMode, workspaceHandle, supportsFS, cachedHandle, perm,
                   idbT, idbR, fsT, fsR, phase, tz, switched, AppState, db, opened>>

\* the awaited save settles: the store is written and, on success,
\* AppState.currentRecord = saved
SaveRecordDone ==
    /\ phase = "ready"
    /\ \E i \in DOMAIN calls :
        /\ calls[i].op = "saveRecord"
        /\ LET r1 == calls[i].record
               ok == storageMode = "file" => fileUsable
               saved == IF storageMode = "file" THEN r1
                        ELSE Storage_saveData(r1, getTimestamp(clock),
                                              generateId(nextId + 1))
           IN  /\ fsR' = IF storageMode = "file" /\ ok THEN saveRecordToFile(fsR, r1)
                         ELSE fsR
               /\ idbR' = IF storageMode = "file" THEN idbR ELSE idbPut(idbR, saved)
               /\ AppState' = IF ok THEN [AppState EXCEPT !.currentRecord = <<saved>>]
                              ELSE AppState
               /\ calls' = remove(calls, i)
               /\ last' = [Obs("saveRecordDone") EXCEPT
                             !.ok = ok, !.err = IF ok THEN "" ELSE "save failed",
                             !.arg = <<r1>>, !.id = r1.id,
                             !.res = IF ok THEN <<saved>> ELSE <<>>,
                             !.touched = routed]
    /\ UNCHANGED <<storageMode, workspaceHandle, supportsFS, cachedHandle, perm,
                   idbT, fsT, clock, nextId, phase, tz, switched, db, opened>>

\* confirmDeleteTemplate, the 'delete' button up to the await of
\* StorageAdapter.deleteTemplate: Storage.deleteRecordsByTemplateId has
\* completed
DeleteTemplateClick ==
    /\ phase = "ready"
    /\ Len(calls) < MaxCalls
    /\ \E id \in ListedTemplateIds :
        /\ idbR' = Storage_deleteRecordsByTemplateId(idbR, id)
        /\ calls' = Append(calls, [op |-> "deleteTemplate", id |-> id, pc |-> "template"])
        /\ last' = [Obs("deleteRecordsOfTemplate") EXCEPT !.id = id, !.touched = {"idb"}]
    /\ UNCHANGED <<storageMode, workspaceHandle, supportsFS, cachedHandle, perm,
                   idbT, fsT, fsR, clock, nextId, phase, tz, switched, AppState,
                   db, opened>>

\* StorageAdapter.deleteTemplate, first await: FileStorage.deleteTemplateFile
\* in file mode, Storage.deleteTemplate (the whole call) in browser mode
DeleteTemplateStep ==
    /\ phase = "ready"
    /\ \E i \in DOMAIN calls :
        /\ calls[i].op = "deleteTemplate"
        /\ calls[i].pc = "template"
        /\ LET id == calls[i].id
               removed == fileUsable /\ templateFileExists(fsT, id)
           IN  IF storageMode = "file"
               THEN /\ fsT' = IF removed THEN deleteTemplateFile(fsT, id) ELSE fsT
                    /\ idbT' = idbT
                    /\ calls' = IF removed THEN [calls EXCEPT ![i].pc = "records"]
                                ELSE remove(calls, i)
                    /\ last' = [Obs("deleteTemplateFile") EXCEPT
                                  !.id = id, !.touched = routed, !.ok = removed,
                                  !.err = IF removed THEN "" ELSE "delete template failed"]
               ELSE /\ idbT' = Storage_deleteTemplate(idbT, id)
                    /\ fsT' = fsT
                    /\ calls' = remove(calls, i)
                    /\ last' = [Obs("deleteTemplate") EXCEPT !.id = id, !.touched = routed]
    /\ UNCHANGED <<storageMode, workspaceHandle, supportsFS, cachedHandle, perm,
                   idbR, fsR, clock, nextId, phase, tz, switched, AppState, db, opened>>

\* StorageAdapter.deleteTemplate in file mode, second await:
\* FileStorage.deleteRecordsByTemplateId
DeleteRecordsStep ==
    /\ phase = "ready"
    /\ \E i \in DOMAIN calls :
        /\ calls[i].op = "deleteTemplate"
        /\ calls[i].pc = "records"
        /\ fsR' = IF fileUsable THEN FileStorage_deleteRecordsByTemplateId(fsR, calls[i].id)
                  ELSE fsR
        /\ calls' = remove(calls, i)
        /\ last' = [Obs("deleteTemplate") EXCEPT
                      !.id = calls[i].id, !.touched = routed, !.ok = fileUsable,
                      !.err = IF fileUsable THEN "" ELSE "delete records failed"]
    /\ UNCHANGED <<storageMode, workspaceHandle, supportsFS, cachedHandle, perm,
                   idbT, idbR, fsT, clock, nextId, phase, tz, switched, AppState,
                   db, opened>>

\* the page is closed or reloaded: the scripts start again with their declared
\* values, the calls in flight are gone, the stores stay as they are
Reload ==
    /\ phase = "ready"
    /\ phase' = "loaded"
    /\ storageMode' = "file"
    /\ workspaceHandle' = FALSE
    /\ switched' = FALSE
    /\ last' = NoObs
    /\ AppState' = NoApp
    /\ calls' = <<>>
    /\ db' = FALSE
    /\ opened' = NoOpened
    /\ UNCHANGED <<supportsFS, cachedHandle, perm, idbT, idbR, fsT, fsR, clock,
                   nextId, tz>>

RECURSIVE idsBefore(_, _)
\* the number of ids the copy has generated for the tables before table j
idsBefore(tables, j) ==
    IF j = 1 THEN 0 ELSE idsBefore(tables, j - 1) + 1 + Len(tables[j - 1].columns)

\* the number of ids duplicateTemplate generates for fields, tables and columns
elementIds(original) ==
    Len(original.fields) + idsBefore(original.detailTables, Len(original.detailTables) + 1)

\* a copy that keeps the id of the original
copyOf_sameId(original, n) == [original EXCEPT !.createdAt = NoTime, !.updatedAt = NoTime]

\* duplicateTemplate, lines 349-373: the copy handed to saveTemplate, when
\* generateId has produced n ids so far
copyOf(original, n) ==
    [original EXCEPT
        !.id = NoId,
        !.name = [@ EXCEPT !.sfx = @ \o <<"copy">>],
        !.createdAt = NoTime,
        !.updatedAt = NoTime,
        !.fields = [i \in 1..Len(@) |-> [@[i] EXCEPT !.id = generateId(n + i)]],
        !.detailTables =
            [j \in 1..Len(@) |->
                LET first == n + Len(original.fields) + idsBefore(@, j) + 1
                IN  [@[j] EXCEPT
                        !.id = generateId(first),
                        !.columns = [c \in 1..Len(@) |->
                                        [@[c] EXCEPT !.id = generateId(first + c)]]]]]

\* Template.duplicateTemplate(templateId)
DuplicateTemplate ==
    /\ phase = "ready"
    /\ \E id \in TemplateIdArgs :
        LET read == getTemplateById(id, "granted")
            found == read # {} /\ read # {<<>>}
            original == (CHOOSE l \in read : TRUE)[1]
            now == clock + 1
            n == nextId + elementIds(original)
            t1 == ensureIdAndTimestamps(copyOf(original, nextId), getTimestamp(now),
                                        generateId(n + 1))
            data == Storage_saveData(t1, getTimestamp(now), generateId(n + 1))
        IN  IF ~found
            THEN /\ last' = [Obs("duplicateTemplate") EXCEPT
                               !.id = id, !.touched = routed, !.ok = FALSE,
                               !.err = "template not found"]
                 /\ UNCHANGED <<idbT, fsT, clock, nextId>>
            ELSE /\ now <= MaxClock
                 /\ clock' = now
                 /\ nextId' = n + 1
                 /\ fsT' = IF storageMode = "file" THEN saveTemplateToFile(fsT, t1) ELSE fsT
                 /\ idbT' = IF storageMode = "file" THEN idbT ELSE idbPut(idbT, data)
                 /\ last' = [Obs("duplicateTemplate") EXCEPT
                               !.id = id, !.touched = routed, !.arg = <<original>>,
                               !.res = IF storageMode = "file" THEN <<t1>> ELSE <<data>>]
    /\ UNCHANGED <<storageMode, workspaceHandle, supportsFS, cachedHandle, perm,
                   idbR, fsR, phase, tz, switched>>
    /\ UNCHANGED appVars

NextApp ==
    \/ InitStorage
    \/ StartFillForm
    \/ OpenRecord
    \/ CopyRecord
    \/ SaveRecordCall
    \/ SaveRecordDone
    \/ DeleteTemplateClick
    \/ DeleteTemplateStep
    \/ DeleteRecordsStep
    \/ DuplicateTemplate
    \/ GetAllRecords
    \/ Reload

SpecApp == InitApp /\ [][NextApp]_vars

\* the actions that copy: a template is duplicated, a record is copied from
\* the history and saved from the fill form
NextCopy ==
    \/ DuplicateTemplate
    \/ StartFillForm
    \/ CopyRecord
    \/ SaveRecordCall
    \/ SaveRecordDone

SpecCopy == InitApp /\ [][NextCopy]_vars

-----------------------------------------------------------------------------
(* Claims about the app's actions, checked under SpecApp and SpecCopy *)

\* C23: in file mode, the record files that an interrupted template delete
\* left behind are ignored by the next enumeration: no record that
\* getAllRecords returns has a templateId for which no template is stored.
C23_OrphansIgnored ==
    (last.op = "getAllRecords" /\ last.mode = "file")
    => \A i \in 1..Len(last.res) : \E t \in fsT : t.id = last.res[i].templateId

\* C27: within a delete-template action the records of the template are
\* deleted on the active backend before the template is: in no state has a
\* delete in flight removed its template while records of it are still stored.
C27_RecordsBeforeTemplate ==
    \A i \in DOMAIN calls :
        (calls[i].op = "deleteTemplate" /\ ~\E t \in activeT : t.id = calls[i].id)
        => ~\E r \in activeR : r.templateId = calls[i].id

\* the entities of store S that are still in S2 keep their createdAt
sameCreatedAt(S, S2) ==
    \A x \in S : \A y \in S2 :
        (y.id = x.id /\ ("templateId" \in DOMAIN x => y.templateId = x.templateId))
        => y.createdAt = x.createdAt

\* C28: the createdAt of a stored template or record is fixed when its id is
\* first persisted: no later write to that id (saving an opened record again
\* from the fill form, the save after a generated document, a copy) changes
\* it; only updatedAt changes.
C28_CreatedAtFixed ==
    [][/\ sameCreatedAt(idbT, idbT')
       /\ sameCreatedAt(idbR, idbR')
       /\ sameCreatedAt(fsT, fsT')
       /\ sameCreatedAt(fsR, fsR')]_vars

\* two lists of fields, columns or tables that differ at most in the ids of
\* their elements
sameButIds(a, b) ==
    /\ Len(a) = Len(b)
    /\ \A i \in 1..Len(a) :
        /\ DOMAIN a[i] = DOMAIN b[i]
        /\ \A f \in DOMAIN a[i] \ {"id", "columns"} : a[i][f] = b[i][f]
        /\ "columns" \in DOMAIN a[i] =>
              /\ Len(a[i].columns) = Len(b[i].columns)
              /\ \A c \in 1..Len(a[i].columns) :
                    \A f \in DOMAIN a[i].columns[c] \ {"id"} :
                        a[i].columns[c][f] = b[i].columns[c][f]

\* the step is a duplicateTemplate(id) that changes the active template store
\* from T to T2
duplicates(T, T2) ==
    LET id == last'.id
        stored == {t \in T : t.id = id}
        added == T2 \ T
    IN  IF stored = {}
        THEN ~last'.ok /\ T2 = T
        ELSE /\ last'.ok
             /\ T \subseteq T2
             /\ Cardinality(added) = 1
             /\ \A n \in added : \A original \in stored :
                   /\ n.id \notin {t.id : t \in T}
                   /\ n.createdAt = clock'
                   /\ n.updatedAt = clock'
                   /\ sameButIds(original.fields, n.fields)
                   /\ sameButIds(original.detailTables, n.detailTables)
                   /\ n.wordFile = original.wordFile

-----------------------------------------------------------------------------
(* One fill-form session that starts with a new record: startFillForm has     *)
(* run for a stored template, no record was passed, nothing is stored yet     *)
(* for this session.                                                           *)

\* a second template of an earlier session
OtherTemplate == [ConfiguredTemplate EXCEPT !.id = 2, !.name = Name("B")]

InitFill ==
    /\ storageMode \in {"browser", "file"}
    /\ workspaceHandle = (storageMode = "file")
    /\ supportsFS = (storageMode = "file")
    /\ cachedHandle = (storageMode = "file")
    /\ perm = IF storageMode = "file" THEN "granted" ELSE "prompt"
    /\ \E T \in {{ConfiguredTemplate}, {ConfiguredTemplate, OtherTemplate}} :
        /\ idbT = IF storageMode = "browser" THEN T ELSE {}
        /\ fsT = IF storageMode = "file" THEN T ELSE {}
        /\ \E t \in T : AppState = [currentTemplate |-> t.id, currentRecord |-> <<>>]
    /\ idbR = {}
    /\ fsR = {}
    /\ clock = 1
    /\ nextId = 0
    /\ phase = "ready"
    /\ tz = 0
    /\ switched = FALSE
    /\ last = NoObs
    /\ calls = <<>>
    /\ db = FALSE
    /\ opened = NoOpened

NextFill ==
    \/ SaveRecordCall
    \/ SaveRecordDone
    \/ GetAllRecords

SpecFill == InitFill /\ [][NextFill]_vars

\* C30: in a fill-form session that starts with a new record, the saves (Save
\* button, save after a generated document), however their asynchronous
\* steps interleave, leave one stored record for the session: a later save
\* writes to the id the first one assigned and creates no second record.
C30_OneRecordPerSession ==
    Cardinality(activeR) <= 1

-----------------------------------------------------------------------------
(* Template pack export after import: js/export.js *)

\* createTemplatePack(template)
createTemplatePack(template) ==
    [json |-> TRUE, type |-> "template", version |-> PACK_VERSION,
     body |-> <<template>>]

\* exportTemplatePack(templateId): the pack handed to downloadFile
ExportTemplatePack ==
    /\ phase = "ready"
    /\ \E templateId \in TemplateIdArgs, ans \in AnswersNow :
        /\ Routed(ans)
        /\ IF getTemplateById(templateId, ans) \subseteq {<<>>}
           THEN last' = [Obs("exportTemplatePack") EXCEPT
                           !.id = templateId, !.touched = routed,
                           !.ok = FALSE, !.err = "template not found"]
           ELSE \E template \in getTemplateById(templateId, ans) :
                    last' = [Obs("exportTemplatePack") EXCEPT
                               !.id = templateId, !.touched = routed,
                               !.arg = template,
                               !.res = <<createTemplatePack(template[1])>>,
                               !.version = createTemplatePack(template[1]).version]
    /\ UNCHANGED <<storageMode, supportsFS, cachedHandle, idbT, idbR, fsT, fsR,
                   clock, nextId, phase, tz, switched>>
    /\ UNCHANGED appVars

NextPack ==
    \/ ImportTemplatePack
    \/ ExportTemplatePack

SpecPack == InitImport /\ [][NextPack]_vars

\* C24: the version of a pack is preserved: a template pack with any version
\* V is accepted by importTemplatePack, and when the template it stored is
\* exported again the pack that is written carries the same version V.
C24_VersionPreserved ==
    [][(/\ last.op = "importTemplatePack"
        /\ last.ok
        /\ last.action \in {"created", "renamed", "overwritten"}
        /\ last'.op = "exportTemplatePack"
        /\ last'.ok
        /\ last'.id = last.id)
       => last'.version = last.version]_vars

-----------------------------------------------------------------------------
(* Claims about the start of a session, checked under Spec *)

-----------------------------------------------------------------------------
(* Opening the storage resources: js/storage.js initDB, js/storage-file.js    *)
(* getWorkspace / loadWorkspaceHandle.  A call that has to wait for the       *)
(* database or for the stored handle is an entry of calls until it settles.   *)

MaxOpens == 3

\* a storage operation calls initDB(): the cached connection, or
\* indexedDB.open(DB_NAME, DB_VERSION)
InitDBCall ==
    /\ Len(calls) < MaxCalls
    /\ IF db
       THEN /\ last' = [Obs("initDB") EXCEPT !.res = <<"cached">>]
            /\ UNCHANGED <<calls, opened>>
       ELSE /\ opened.main < MaxOpens
            /\ opened' = [opened EXCEPT !.main = @ + 1]
            /\ calls' = Append(calls, [op |-> "initDB"])
            /\ last' = [Obs("initDB") EXCEPT !.res = <<"open">>]
    /\ UNCHANGED <<storageMode, workspaceHandle, supportsFS, cachedHandle, perm,
                   idbT, idbR, fsT, fsR, clock, nextId, phase, tz, switched,
                   AppState, db>>

\* request.onsuccess of initDB: db = event.target.result
InitDBSuccess ==
    /\ \E i \in DOMAIN calls :
        /\ calls[i].op = "initDB"
        /\ calls' = remove(calls, i)
    /\ db' = TRUE
    /\ last' = [Obs("initDB") EXCEPT !.res = <<"opened">>]
    /\ UNCHANGED <<storageMode, workspaceHandle, supportsFS, cachedHandle, perm,
                   idbT, idbR, fsT, fsR, clock, nextId, phase, tz, switched,
                   AppState, opened>>

\* a file operation calls getWorkspace() (or initStorage calls hasWorkspace()):
\* the held handle, or loadWorkspaceHandle()
GetWorkspaceCall ==
    /\ Len(calls) < MaxCalls
    /\ IF workspaceHandle
       THEN /\ last' = [Obs("getWorkspace") EXCEPT !.res = <<"cached">>]
            /\ UNCHANGED <<calls, opened>>
       ELSE /\ opened.workspace < MaxOpens
            /\ opened' = [opened EXCEPT !.workspace = @ + 1]
            /\ calls' = Append(calls, [op |-> "loadWorkspaceHandle"])
            /\ last' = [Obs("getWorkspace") EXCEPT !.res = <<"load">>]
    /\ UNCHANGED <<storageMode, workspaceHandle, supportsFS, cachedHandle, perm,
                   idbT, idbR, fsT, fsR, clock, nextId, phase, tz, switched,
                   AppState, db>>

\* loadWorkspaceHandle settles: the stored handle is adopted, or null
LoadWorkspaceHandleDone ==
    /\ \E i \in DOMAIN calls :
        /\ calls[i].op = "loadWorkspaceHandle"
        /\ calls' = remove(calls, i)
    /\ \E ans \in AnswersNow :
        /\ workspaceHandle' = (workspaceHandle \/ handleLoaded(ans))
        /\ perm' = permAfter(ans)
        /\ last' = [Obs("getWorkspace") EXCEPT
                      !.ok = getWorkspace(ans),
                      !.err = IF getWorkspace(ans) THEN "" ELSE "no workspace configured",
                      !.res = <<"loaded">>]
    /\ UNCHANGED <<storageMode, supportsFS, cachedHandle, idbT, idbR, fsT, fsR,
                   clock, nextId, phase, tz, switched, AppState, db, opened>>

NextOpen ==
    \/ InitDBCall
    \/ InitDBSuccess
    \/ GetWorkspaceCall
    \/ LoadWorkspaceHandleDone

SpecOpen == Init /\ [][NextOpen]_vars

\* C29: opening the storage resources is idempotent under every interleaving:
\* in one session the main database is opened at most once and the workspace
\* handle is loaded at most once, also when operations start before an
\* earlier open has finished.
C29_OpenedOnce ==
    /\ opened.main <= 1
    /\ opened.workspace <= 1

====
